---- MODULE Spec2Model ----
(***************************************************************************)
(* Australian Property Intelligence backend: the property-question        *)
(* analysis pipeline (PropertyAnalysisService), its location detectors,   *)
(* the analyze endpoint, the LLM service, the RSS service, the query       *)
(* store, the web search service, the cached feed service and the          *)
(* progress generator. Each component has its own specification over the   *)
(* same variables: SpecDetect, Spec, SpecEndpoint, SpecLLM, SpecRss,       *)
(* SpecStore, SpecSearch, SpecCache, SpecProgress.                         *)
(*                                                                         *)
(* Text is modelled as a sequence of one-character strings, so that        *)
(* str.lower() and the substring test `keyword in question_lower` are     *)
(* computed character by character.                                        *)
(***************************************************************************)
EXTENDS Integers, Sequences, FiniteSets, TLC

VARIABLES
    dq,         \* detector check: the input text
    dres,       \* detector check: the detectors' results
    cfg,        \* the configuration and the fields of the object under study
    db,         \* the queries table, a sequence of rows in insertion order
    next_id,    \* the next value of the table's autoincrement id
    served,     \* number of requests accepted so far
    pc,         \* position of the request in progress, "idle" when none
    question,   \* the question of the request in progress
    user_id,    \* the user of the request in progress
    locals,     \* local variables of analyze_property_question
    calls,      \* calls to collaborators made by the request, in order
    result,     \* the record analyze_property_question returned
    escaped,    \* an exception left analyze_property_question
    response    \* the HTTP response of the analyze endpoint

reqvars == <<pc, question, user_id, locals, calls, result, escaped, response>>

vars == <<dq, dres, cfg, db, next_id, served, reqvars>>

(***************************************************************************)
(* Bounds                                                                  *)
(***************************************************************************)
\* a detector input is the concatenation of at most MaxFrags fragments
MaxFrags == 3
\* an LLM call reports between 0 and MaxTok tokens
MaxTok == 1
\* at most MaxRequests requests are accepted in one behaviour
MaxRequests == 1
\* the per-user token ceiling of the budget gate
TokenCeiling == 2

(***************************************************************************)
(* Text primitives                                                         *)
(***************************************************************************)
\* str.lower() on one character
LowerChar(c) ==
    CASE c = "Q" -> "q"
      [] c = "L" -> "l"
      [] c = "D" -> "d"
      [] c = "W" -> "w"
      [] c = "A" -> "a"
      [] c = "S" -> "s"
      [] OTHER -> c

\* a lower() that leaves the text as it is
lowerIdentity(s) == s

\* str.lower()
lower(s) == [i \in 1..Len(s) |-> LowerChar(s[i])]

\* Python's `kw in s` on strings: kw occurs as a contiguous substring of s
Contains(kw, s) ==
    \E i \in 1..(Len(s) - Len(kw) + 1) : SubSeq(s, i, i + Len(kw) - 1) = kw

\* any(keyword in question_lower for keyword in keywords)
AnyKeyword(keywords, question_lower) ==
    \E k \in 1..Len(keywords) : Contains(keywords[k], question_lower)

(***************************************************************************)
(* services/property_service.py: PropertyAnalysisService._detect_location  *)
(***************************************************************************)
\* the location_mapping dict, in insertion (= iteration) order
location_mapping == <<
    [scope |-> "Brisbane", keywords |-> <<
        <<"b", "r", "i", "s", "b", "a", "n", "e">>,
        <<"q", "u", "e", "e", "n", "s", "l", "a", "n", "d">>,
        <<"q", "l", "d">>,
        <<"g", "o", "l", "d", " ", "c", "o", "a", "s", "t">>,
        <<"s", "u", "n", "s", "h", "i", "n", "e", " ", "c", "o", "a", "s", "t">>>>],
    [scope |-> "Sydney", keywords |-> <<
        <<"s", "y", "d", "n", "e", "y">>,
        <<"n", "s", "w">>,
        <<"n", "e", "w", " ", "s", "o", "u", "t", "h", " ", "w", "a", "l", "e", "s">>>>],
    [scope |-> "Melbourne", keywords |-> <<
        <<"m", "e", "l", "b", "o", "u", "r", "n", "e">>,
        <<"v", "i", "c", "t", "o", "r", "i", "a">>,
        <<"v", "i", "c">>>>],
    [scope |-> "Perth", keywords |-> <<
        <<"p", "e", "r", "t", "h">>,
        <<"w", "e", "s", "t", "e", "r", "n", " ", "a", "u", "s", "t", "r", "a", "l", "i", "a">>,
        <<"w", "a">>>>],
    [scope |-> "Adelaide", keywords |-> <<
        <<"a", "d", "e", "l", "a", "i", "d", "e">>,
        <<"s", "o", "u", "t", "h", " ", "a", "u", "s", "t", "r", "a", "l", "i", "a">>,
        <<"s", "a">>>>]
>>

\* the for-loop over location_mapping.items() from entry i on, with its
\* break on the first entry that has a matching keyword
RECURSIVE DetectLoop(_, _)
\* the same loop without the break: a later matching entry overwrites
\* detected_scope
RECURSIVE DetectLoopNoBreak(_, _, _)
DetectLoopNoBreak(i, question_lower, detected_scope) ==
    IF i > Len(location_mapping) THEN detected_scope
    ELSE IF AnyKeyword(location_mapping[i].keywords, question_lower)
         THEN DetectLoopNoBreak(i + 1, question_lower, location_mapping[i].scope)
         ELSE DetectLoopNoBreak(i + 1, question_lower, detected_scope)

DetectLoopMutant(i, question_lower) ==
    DetectLoopNoBreak(i, question_lower, "National")

DetectLoop(i, question_lower) ==
    IF i > Len(location_mapping) THEN "National"
    ELSE IF AnyKeyword(location_mapping[i].keywords, question_lower)
         THEN location_mapping[i].scope
         ELSE DetectLoop(i + 1, question_lower)

_detect_location(q) == DetectLoop(1, lower(q))

(***************************************************************************)
(* services/llm_service.py: LLMService._detect_location_scope_legacy       *)
(***************************************************************************)
legacy_brisbane_keywords == <<
    <<"b", "r", "i", "s", "b", "a", "n", "e">>,
    <<"q", "u", "e", "e", "n", "s", "l", "a", "n", "d">>,
    <<"q", "l", "d">>,
    <<"g", "o", "l", "d", " ", "c", "o", "a", "s", "t">>,
    <<"s", "u", "n", "s", "h", "i", "n", "e", " ", "c", "o", "a", "s", "t">>>>
legacy_sydney_keywords == <<
    <<"s", "y", "d", "n", "e", "y">>,
    <<"n", "s", "w">>,
    <<"n", "e", "w", " ", "s", "o", "u", "t", "h", " ", "w", "a", "l", "e", "s">>>>
legacy_melbourne_keywords == <<
    <<"m", "e", "l", "b", "o", "u", "r", "n", "e">>,
    <<"v", "i", "c", "t", "o", "r", "i", "a">>,
    <<"v", "i", "c">>>>
legacy_perth_keywords == <<
    <<"p", "e", "r", "t", "h">>,
    <<"w", "e", "s", "t", "e", "r", "n", " ", "a", "u", "s", "t", "r", "a", "l", "i", "a">>,
    <<"w", "a">>>>
legacy_adelaide_keywords == <<
    <<"a", "d", "e", "l", "a", "i", "d", "e">>,
    <<"s", "o", "u", "t", "h", " ", "a", "u", "s", "t", "r", "a", "l", "i", "a">>,
    <<"s", "a">>>>

\* the if/elif chain of _detect_location_scope_legacy
LegacyChain(question_lower) ==
    IF AnyKeyword(legacy_brisbane_keywords, question_lower) THEN "brisbane"
    ELSE IF AnyKeyword(legacy_sydney_keywords, question_lower) THEN "sydney"
    ELSE IF AnyKeyword(legacy_melbourne_keywords, question_lower) THEN "melbourne"
    ELSE IF AnyKeyword(legacy_perth_keywords, question_lower) THEN "perth"
    ELSE IF AnyKeyword(legacy_adelaide_keywords, question_lower) THEN "adelaide"
    ELSE "national"

_detect_location_scope_legacy(q) == LegacyChain(lower(q))

(***************************************************************************)
(* curam-ai-python-v3/services/property_service.py:                        *)
(* PropertyAnalysisService._detect_location_scope                          *)
(***************************************************************************)
v3_brisbane_keywords == <<
    <<"b", "r", "i", "s", "b", "a", "n", "e">>,
    <<"q", "u", "e", "e", "n", "s", "l", "a", "n", "d">>,
    <<"q", "l", "d">>,
    <<"g", "o", "l", "d", " ", "c", "o", "a", "s", "t">>,
    <<"s", "u", "n", "s", "h", "i", "n", "e", " ", "c", "o", "a", "s", "t">>,
    <<"i", "p", "s", "w", "i", "c", "h">>,
    <<"l", "o", "g", "a", "n">>,
    <<"c", "a", "b", "o", "o", "l", "t", "u", "r", "e">>,
    <<"t", "o", "o", "w", "o", "o", "m", "b", "a">>,
    <<"r", "e", "d", "l", "a", "n", "d">>,
    <<"m", "o", "r", "e", "t", "o", "n", " ", "b", "a", "y">>>>
v3_sydney_keywords == <<
    <<"s", "y", "d", "n", "e", "y">>,
    <<"n", "s", "w">>,
    <<"n", "e", "w", " ", "s", "o", "u", "t", "h", " ", "w", "a", "l", "e", "s">>,
    <<"p", "a", "r", "r", "a", "m", "a", "t", "t", "a">>,
    <<"p", "e", "n", "r", "i", "t", "h">>>>
v3_melbourne_keywords == <<
    <<"m", "e", "l", "b", "o", "u", "r", "n", "e">>,
    <<"v", "i", "c", "t", "o", "r", "i", "a">>,
    <<"v", "i", "c">>,
    <<"g", "e", "e", "l", "o", "n", "g">>,
    <<"b", "a", "l", "l", "a", "r", "a", "t">>>>
v3_perth_keywords == <<
    <<"p", "e", "r", "t", "h">>,
    <<"w", "e", "s", "t", "e", "r", "n", " ", "a", "u", "s", "t", "r", "a", "l", "i", "a">>,
    <<"w", "a">>,
    <<"f", "r", "e", "m", "a", "n", "t", "l", "e">>,
    <<"j", "o", "o", "n", "d", "a", "l", "u", "p">>>>
v3_adelaide_keywords == <<
    <<"a", "d", "e", "l", "a", "i", "d", "e">>,
    <<"s", "o", "u", "t", "h", " ", "a", "u", "s", "t", "r", "a", "l", "i", "a">>,
    <<"s", "a">>>>

\* the if/elif chain of _detect_location_scope
V3Chain(question_lower) ==
    IF AnyKeyword(v3_brisbane_keywords, question_lower) THEN "brisbane"
    ELSE IF AnyKeyword(v3_sydney_keywords, question_lower) THEN "sydney"
    ELSE IF AnyKeyword(v3_melbourne_keywords, question_lower) THEN "melbourne"
    ELSE IF AnyKeyword(v3_perth_keywords, question_lower) THEN "perth"
    ELSE IF AnyKeyword(v3_adelaide_keywords, question_lower) THEN "adelaide"
    ELSE "national"

_detect_location_scope(q) == V3Chain(lower(q))

(***************************************************************************)
(* Values                                                                  *)
(***************************************************************************)
\* Python's None
None == [kind |-> "None"]

\* a variable that holds nothing yet
NoValue == [kind |-> "NoValue"]

\* no detector has run
NoResult == [done |-> FALSE]

\* confidence values are kept as hundredths
DefaultConfidence == 85
FinalConfidence == 90

\* final_answer texts
InitialAnswer == [kind |-> "initial"]
Apology == [kind |-> "apology"]
LLMAnswer(provider) == [kind |-> "llm", provider |-> provider]

\* a context provider is not injected, injected but not available, or
\* injected and available
ProviderStates == {"absent", "unavailable", "available"}

Users == {"anonymous", "u1"}

\* texts an LLM answers the decision prompt with, as sequences of tokens:
\* "w" is a word of prose, "{" and "}" are braces, "junk" is text that is
\* not JSON, the other tokens are members of a JSON object
DecisionTexts == {
    <<"w", "{", "action:web_search", "query:q", "}", "w">>,
    <<"{", "action:analyze_directly", "reason:r", "}">>,
    <<"w", "w">>,
    <<"{", "junk", "}">>,
    <<"{", "reason:r", "}">>,
    <<"}", "action:web_search", "query:q", "{">>,
    <<"{", "action:web_search", "}">> }

JsonMembers == {"action:web_search", "action:analyze_directly", "query:q", "reason:r"}

(***************************************************************************)
(* llm_integration.py: the tolerant extraction of a JSON object from the   *)
(* text of an LLM answer                                                   *)
(***************************************************************************)
\* str.find: 0-based index of the first occurrence of tok, -1 if none
find(text, tok) ==
    IF \E i \in 1..Len(text) : text[i] = tok
    THEN (CHOOSE i \in 1..Len(text) :
              text[i] = tok /\ \A j \in 1..(i - 1) : text[j] # tok) - 1
    ELSE -1

\* str.rfind: 0-based index of the last occurrence of tok, -1 if none
rfind(text, tok) ==
    IF \E i \in 1..Len(text) : text[i] = tok
    THEN (CHOOSE i \in 1..Len(text) :
              text[i] = tok /\ \A j \in (i + 1)..Len(text) : text[j] # tok) - 1
    ELSE -1

\* text[a:b] for 0 <= a and 0 <= b
Slice(text, a, b) == SubSeq(text, a + 1, IF b > Len(text) THEN Len(text) ELSE b)

\* json.loads on a slice of tokens: the set of members of the object, or
\* None when the slice is not one JSON object
json_loads(slice) ==
    IF /\ Len(slice) >= 2
       /\ slice[1] = "{"
       /\ slice[Len(slice)] = "}"
       /\ \A i \in 2..(Len(slice) - 1) : slice[i] \in JsonMembers
    THEN [kind |-> "object", members |-> { slice[i] : i \in 2..(Len(slice) - 1) }]
    ELSE None

\* the try block: slice from the first "{" to the last "}" and decode; any
\* failure (no brace, nothing decodable) yields None
ExtractJson(analysis_text) ==
    LET json_start == find(analysis_text, "{")
        json_end == rfind(analysis_text, "}") + 1
    IN  IF json_start # -1 /\ json_end # -1
        THEN json_loads(Slice(analysis_text, json_start, json_end))
        ELSE None

(***************************************************************************)
(* services/property_service.py: _check_for_search_necessity               *)
(* (the method is called by analyze_property_question; its body is not     *)
(* part of the source file)                                                *)
(***************************************************************************)
\* the search decision: a record with the query when the text holds a JSON
\* object whose action is web_search and that has a query; None otherwise
_check_for_search_necessity(answer) ==
    LET obj == ExtractJson(answer)
    IN  IF /\ obj # None
           /\ "action:web_search" \in obj.members
           /\ "query:q" \in obj.members
        THEN [kind |-> "search", query |-> <<"q">>]
        ELSE None

(***************************************************************************)
(* services/llm_service.py: results of the analyze methods                 *)
(***************************************************************************)
\* lines 283-290
_error_response(error_msg) ==
    [success |-> FALSE, analysis |-> None, error |-> error_msg,
     processing_time |-> 0]

\* analyze_with_<provider>_location: no client -> error response without a
\* network call; client call succeeded -> the text; client call raised ->
\* caught, error response
LLMResponse(provider, available, outcome, text, tokens) ==
    IF ~available THEN _error_response("not available")
    ELSE IF outcome = "ok"
         THEN [success |-> TRUE, analysis |-> text, provider |-> provider,
               tokens_used |-> tokens]
         ELSE _error_response("analysis failed")

\* what a call on the injected llm_service can do, seen from its caller:
\* return a success record, return an error record, or raise
LLMOutcomes(available) ==
    IF available THEN {"ok", "fail", "raise"} ELSE {"fail", "raise"}

\* a call that goes to the network although the provider has no client
LLMCallNoShortCircuit(step, provider, available, outcome, tokens) ==
    [kind |-> "llm", step |-> step, provider |-> provider,
     network |-> TRUE, outcome |-> outcome,
     tokens |-> IF available /\ outcome = "ok" THEN tokens ELSE 0]

\* the record of one call of an analyze method: the network is reached
\* only with a client (lines 114-115 and 147-148 return before)
LLMCall(step, provider, available, outcome, tokens) ==
    [kind |-> "llm", step |-> step, provider |-> provider,
     network |-> available, outcome |-> outcome,
     tokens |-> IF available /\ outcome = "ok" THEN tokens ELSE 0]

ContextCall(kind, outcome) ==
    [kind |-> kind, step |-> kind, provider |-> kind, network |-> TRUE,
     outcome |-> outcome, tokens |-> 0]

\* a search request that carries the raw question of the user
SearchCallWithQuestion(query, outcome) ==
    [kind |-> "search", step |-> "search", provider |-> "search",
     network |-> TRUE, outcome |-> outcome, tokens |-> 0, query |-> question]

\* services/property_service.py line 70: the search request, with its
\* query argument
SearchCall(query, outcome) ==
    [kind |-> "search", step |-> "search", provider |-> "search",
     network |-> TRUE, outcome |-> outcome, tokens |-> 0, query |-> query]

(***************************************************************************)
(* services/property_service.py:                                           *)
(* PropertyAnalysisService.analyze_property_question (the five-step        *)
(* pipeline with the decision call and the conditional web search)         *)
(***************************************************************************)
\* the questions the pipeline is called with
PipelineQuestions == {
    <<>>,
    <<"Q", "L", "D", " ", "h", "o", "m", "e">>,
    <<"h", "o", "m", "e">>,
    <<"s", "a">> }

\* dict.get(key, default)
Get(d, key, default) == IF key \in DOMAIN d THEN d[key] ELSE default

\* assignment to a local variable, new or not
SetLocal(l, name, value) ==
    [f \in DOMAIN l \cup {name} |-> IF f = name THEN value ELSE l[f]]

\* lines 23-27
InitialLocals ==
    [final_answer |-> InitialAnswer, success |-> FALSE,
     confidence |-> DefaultConfidence, question_type |-> "custom",
     llm_provider |-> "unknown"]

\* an exception that is not caught: it leaves the method
ExceptPropagates(l) ==
    [locals |-> l, pc |-> "s_raised", escaped |-> TRUE]

\* lines 104-107: the except clause around the whole pipeline
ExceptClause(l) ==
    [locals |-> [l EXCEPT !.final_answer = Apology, !.success = FALSE],
     pc |-> "s_return", escaped |-> FALSE]

\* line 68 with the search decision ignored
SearchWheneverAvailable(search_needed, web) == web = "available"

\* line 68: search_needed and self.web_search_service and
\* self.web_search_service.is_available
SearchCondition(search_needed, web) ==
    search_needed # None /\ web = "available"

\* a call of the method
CallAnalyze(q) ==
    /\ pc = "idle"
    /\ cfg.property
    /\ pc' = "s_detect"
    /\ question' = q
    /\ user_id' = "anonymous"
    /\ locals' = InitialLocals
    /\ calls' = <<>>
    /\ result' = NoValue
    /\ escaped' = FALSE
    /\ response' = NoValue
    /\ UNCHANGED <<dq, dres, cfg, db, next_id, served>>

\* line 31
S_Detect ==
    /\ pc = "s_detect"
    /\ locals' = SetLocal(locals, "location_info",
                           [scope |-> _detect_location(question)])
    /\ pc' = "s_rss"
    /\ UNCHANGED <<dq, dres, cfg, db, next_id, served, question, user_id,
                   calls, result, escaped, response>>

\* lines 35-50. With articles the context string is built from
\* articles[:Config.RSS_TOP_N_ARTICLES_FOR_LLM]; the module does not import
\* Config, the NameError is caught by the inner except like an exception of
\* the fetch, and rss_context stays empty.
S_RssFetch(outcome) ==
    /\ pc = "s_rss"
    /\ cfg.rss = "available"
    /\ calls' = Append(calls, ContextCall("rss", outcome))
    /\ locals' = SetLocal(locals, "rss_context", "")
    /\ pc' = "s_decide"
    /\ UNCHANGED <<dq, dres, cfg, db, next_id, served, question, user_id,
                   result, escaped, response>>

\* line 50: no RSS service, or one that is not available
S_RssSkip ==
    /\ pc = "s_rss"
    /\ cfg.rss # "available"
    /\ locals' = SetLocal(locals, "rss_context", "")
    /\ pc' = "s_decide"
    /\ UNCHANGED <<dq, dres, cfg, db, next_id, served, question, user_id,
                   calls, result, escaped, response>>

\* lines 54-66: the decision call goes to Claude; a raised exception or an
\* error record (line 61) ends in the except clause
S_Decide(outcome, text, tokens) ==
    /\ pc = "s_decide"
    /\ outcome \in LLMOutcomes(cfg.claude)
    /\ calls' = Append(calls, LLMCall("decision", "claude", cfg.claude, outcome, tokens))
    /\ LET initial_llm_response ==
               LLMResponse("claude", cfg.claude, outcome, text, tokens)
           l1 == [locals EXCEPT !.llm_provider = "claude"]
       IN  IF outcome = "raise"
           THEN LET x == ExceptClause(locals)
                IN  locals' = x.locals /\ pc' = x.pc /\ escaped' = x.escaped
           ELSE IF ~initial_llm_response.success
           THEN LET x == ExceptClause(l1)
                IN  locals' = x.locals /\ pc' = x.pc /\ escaped' = x.escaped
           ELSE /\ locals' = SetLocal(SetLocal(l1, "decision_text", text),
                                      "search_needed",
                                      _check_for_search_necessity(initial_llm_response.analysis))
                /\ pc' = "s_search"
                /\ UNCHANGED escaped
    /\ UNCHANGED <<dq, dres, cfg, db, next_id, served, question, user_id,
                   result, response>>

\* a search step that sends its request twice
S_SearchTwice(outcome) ==
    /\ pc = "s_search"
    /\ SearchCondition(locals.search_needed, cfg.web)
    /\ calls' = calls \o << SearchCall(Get(locals.search_needed, "query", None), outcome),
                          SearchCall(Get(locals.search_needed, "query", None), outcome) >>
    /\ IF outcome = "fail"
       THEN /\ locals' = SetLocal(locals, "search_results_context", "")
            /\ pc' = "s_final"
            /\ UNCHANGED escaped
       ELSE LET x == ExceptClause(locals)
            IN  locals' = x.locals /\ pc' = x.pc /\ escaped' = x.escaped
    /\ UNCHANGED <<dq, dres, cfg, db, next_id, served, question, user_id,
                   result, response>>

\* lines 68-78: the search is not inside a try of its own. A successful
\* search builds its context from
\* search_response['results'][:Config.GOOGLE_CSE_TOP_N_RESULTS]; Config is
\* not imported, and the NameError goes to the except clause.
S_Search(outcome) ==
    /\ pc = "s_search"
    /\ SearchCondition(locals.search_needed, cfg.web)
    /\ calls' = Append(calls, SearchCall(Get(locals.search_needed, "query", None), outcome))
    /\ IF outcome = "fail"
       THEN /\ locals' = SetLocal(locals, "search_results_context", "")
            /\ pc' = "s_final"
            /\ UNCHANGED escaped
       ELSE LET x == ExceptClause(locals)
            IN  locals' = x.locals /\ pc' = x.pc /\ escaped' = x.escaped
    /\ UNCHANGED <<dq, dres, cfg, db, next_id, served, question, user_id,
                   result, response>>

\* lines 79-81: no search
S_SearchSkip ==
    /\ pc = "s_search"
    /\ ~SearchCondition(locals.search_needed, cfg.web)
    /\ locals' = SetLocal(locals, "search_results_context", "")
    /\ pc' = "s_final"
    /\ UNCHANGED <<dq, dres, cfg, db, next_id, served, question, user_id,
                   calls, result, escaped, response>>

\* a final step that keeps the provider of the decision step
FinalProviderClaudeFirst(gemini_is_available) == "claude"

\* lines 90-95: Gemini when it is available, Claude otherwise
FinalProvider(gemini_is_available) ==
    IF gemini_is_available THEN "gemini" ELSE "claude"

\* lines 86-102
S_Final(outcome, tokens) ==
    /\ pc = "s_final"
    /\ LET provider == FinalProvider(cfg.gemini)
           available == IF provider = "gemini" THEN cfg.gemini ELSE cfg.claude
           llm_response == LLMResponse(provider, available, outcome, "answer", tokens)
           l1 == [locals EXCEPT !.llm_provider = provider]
       IN  /\ outcome \in LLMOutcomes(available)
           /\ calls' = Append(calls, LLMCall("final", provider, available, outcome, tokens))
           /\ IF outcome = "raise"
              THEN LET x == ExceptClause(locals)
                   IN  locals' = x.locals /\ pc' = x.pc /\ escaped' = x.escaped
              ELSE IF ~llm_response.success
              THEN LET x == ExceptClause(l1)
                   IN  locals' = x.locals /\ pc' = x.pc /\ escaped' = x.escaped
              ELSE /\ locals' = [l1 EXCEPT !.final_answer = LLMAnswer(provider),
                                           !.success = TRUE,
                                           !.confidence = FinalConfidence]
                   /\ pc' = "s_return"
                   /\ UNCHANGED escaped
    /\ UNCHANGED <<dq, dres, cfg, db, next_id, served, question, user_id,
                   result, response>>

\* lines 109-117
S_Return ==
    /\ pc = "s_return"
    /\ result' = [success |-> locals.success,
                  final_answer |-> locals.final_answer,
                  confidence |-> locals.confidence,
                  question_type |-> locals.question_type,
                  llm_provider |-> locals.llm_provider,
                  claude_result |-> None,
                  gemini_result |-> None]
    /\ pc' = "s_returned"
    /\ UNCHANGED <<dq, dres, cfg, db, next_id, served, question, user_id,
                   locals, calls, escaped, response>>

\* the caller has the record (or the exception); the service is idle again
S_Done ==
    /\ pc \in {"s_returned", "s_raised"}
    /\ pc' = "idle"
    /\ question' = <<>>
    /\ user_id' = "anonymous"
    /\ locals' = NoValue
    /\ calls' = <<>>
    /\ result' = NoValue
    /\ escaped' = FALSE
    /\ response' = NoValue
    /\ UNCHANGED <<dq, dres, cfg, db, next_id, served>>

\* the service object exists and is wired to its collaborators
PipelineConfigs ==
    { c \in [claude : BOOLEAN, gemini : BOOLEAN, rss : ProviderStates,
             web : ProviderStates, database : BOOLEAN, property : BOOLEAN] :
        c.property /\ ~c.database }

IdleRequest ==
    /\ pc = "idle"
    /\ question = <<>>
    /\ user_id = "anonymous"
    /\ locals = NoValue
    /\ calls = <<>>
    /\ result = NoValue
    /\ escaped = FALSE
    /\ response = NoValue

Init ==
    /\ dq = <<>>
    /\ dres = NoResult
    /\ cfg \in PipelineConfigs
    /\ db = <<>>
    /\ next_id = 1
    /\ served = 0
    /\ IdleRequest

Next ==
    \/ \E q \in PipelineQuestions : CallAnalyze(q)
    \/ S_Detect
    \/ \E outcome \in {"articles", "empty", "raise"} : S_RssFetch(outcome)
    \/ S_RssSkip
    \/ \E outcome \in {"ok", "fail", "raise"}, text \in DecisionTexts, tokens \in 0..MaxTok :
           S_Decide(outcome, text, tokens)
    \/ \E outcome \in {"ok", "fail", "raise"} : S_Search(outcome)
    \/ S_SearchSkip
    \/ \E outcome \in {"ok", "fail", "raise"}, tokens \in 0..MaxTok : S_Final(outcome, tokens)
    \/ S_Return
    \/ S_Done

Spec == Init /\ [][Next]_vars

(***************************************************************************)
(* curam-ai-python-v3/services/property_service.py: the two-call pipeline  *)
(* that the analyze endpoint of app.py calls synchronously                 *)
(***************************************************************************)
\* Config.PRESET_QUESTIONS (one of its entries is among the request texts)
PRESET_QUESTIONS == {
    <<"W", "h", "a", "t", " ", "a", "r", "e", " ", "t", "h", "e", " ",
      "e", "m", "e", "r", "g", "i", "n", "g", " ", "p", "r", "o", "p", "e",
      "r", "t", "y", " ", "h", "o", "t", "s", "p", "o", "t", "s", " ", "i",
      "n", " ", "A", "u", "s", "t", "r", "a", "l", "i", "a", "?">> }

\* line 83
_determine_question_type(q) ==
    IF q \in PRESET_QUESTIONS THEN "preset" ELSE "custom"

\* the focus text that goes with each scope (lines 103-113)
FocusOf(scope) ==
    CASE scope = "brisbane" -> "Brisbane and Queensland"
      [] scope = "sydney" -> "Sydney and New South Wales"
      [] scope = "melbourne" -> "Melbourne and Victoria"
      [] scope = "perth" -> "Perth and Western Australia"
      [] scope = "adelaide" -> "Adelaide and South Australia"
      [] OTHER -> "Australian national property market"

\* lines 244-321: the hand-written narrative, one template for Brisbane,
\* one for national, one for the other cities with the city's focus in it
_generate_fallback_answer(q) ==
    LET scope == _detect_location_scope(q)
    IN  [kind |-> "fallback",
         template |-> IF scope \in {"brisbane", "national"} THEN scope ELSE "city",
         focus |-> FocusOf(scope),
         sources |-> FALSE]

\* lines 212-242: Gemini's text when Gemini succeeded, else Claude's, else
\* the fallback narrative; the list of sources is appended when there are
\* data sources
_format_comprehensive_answer(q, claude_result, gemini_result, data_sources) ==
    LET main == IF gemini_result.success THEN LLMAnswer("gemini")
                ELSE IF claude_result.success THEN LLMAnswer("claude")
                ELSE _generate_fallback_answer(q)
    IN  [f \in DOMAIN main \cup {"sources"} |->
            IF f = "sources" THEN data_sources > 0 ELSE main[f]]

\* lines 73-79: the except clause around the pipeline
V3ExceptClause(q) ==
    [success |-> FALSE, error |-> "exception",
     final_answer |-> _generate_fallback_answer(q)]

\* lines 26-30
V_Start ==
    /\ pc = "v_start"
    /\ locals' = [question_type |-> _determine_question_type(question),
                  location_info |-> [scope |-> _detect_location_scope(question),
                                     focus |-> FocusOf(_detect_location_scope(question))]]
    /\ pc' = "v_rss"
    /\ UNCHANGED <<dq, dres, cfg, db, next_id, served, question, user_id,
                   calls, result, escaped, response>>

\* lines 118-158 with an RSS service: get_brisbane_news for a Brisbane
\* question, get_recent_news otherwise; an exception of the fetch is caught
\* and gives no data sources
V_RssFetch(outcome) ==
    /\ pc = "v_rss"
    /\ cfg.rss # "absent"
    /\ calls' = Append(calls, ContextCall("rss", outcome))
    /\ locals' = SetLocal(locals, "data_sources",
                          IF outcome = "articles" THEN 1 ELSE 0)
    /\ pc' = "v_claude"
    /\ UNCHANGED <<dq, dres, cfg, db, next_id, served, question, user_id,
                   result, escaped, response>>

\* lines 121-123: no RSS service
V_RssSkip ==
    /\ pc = "v_rss"
    /\ cfg.rss = "absent"
    /\ locals' = SetLocal(locals, "data_sources", 0)
    /\ pc' = "v_claude"
    /\ UNCHANGED <<dq, dres, cfg, db, next_id, served, question, user_id,
                   calls, result, escaped, response>>

\* line 39
V_Claude(outcome, tokens) ==
    /\ pc = "v_claude"
    /\ outcome \in LLMOutcomes(cfg.claude)
    /\ calls' = Append(calls, LLMCall("claude", "claude", cfg.claude, outcome, tokens))
    /\ IF outcome = "raise"
       THEN /\ result' = V3ExceptClause(question)
            /\ pc' = "e_respond"
            /\ UNCHANGED locals
       ELSE /\ locals' = SetLocal(locals, "claude_result",
                                  LLMResponse("claude", cfg.claude, outcome, "analysis", tokens))
            /\ pc' = "v_gemini"
            /\ UNCHANGED result
    /\ UNCHANGED <<dq, dres, cfg, db, next_id, served, question, user_id,
                   escaped, response>>

\* lines 42-46
V_Gemini(outcome, tokens) ==
    /\ pc = "v_gemini"
    /\ outcome \in LLMOutcomes(cfg.gemini)
    /\ calls' = Append(calls, LLMCall("gemini", "gemini", cfg.gemini, outcome, tokens))
    /\ IF outcome = "raise"
       THEN /\ result' = V3ExceptClause(question)
            /\ pc' = "e_respond"
            /\ UNCHANGED locals
       ELSE /\ locals' = SetLocal(locals, "gemini_result",
                                  LLMResponse("gemini", cfg.gemini, outcome, "analysis", tokens))
            /\ pc' = "v_format"
            /\ UNCHANGED result
    /\ UNCHANGED <<dq, dres, cfg, db, next_id, served, question, user_id,
                   escaped, response>>

\* lines 49-71
V_Format ==
    /\ pc = "v_format"
    /\ result' = [success |-> TRUE,
                  question_type |-> locals.question_type,
                  final_answer |-> _format_comprehensive_answer(
                      question, locals.claude_result, locals.gemini_result,
                      locals.data_sources),
                  claude_result |-> locals.claude_result,
                  gemini_result |-> locals.gemini_result,
                  location_detected |-> locals.location_info.scope]
    /\ pc' = "e_respond"
    /\ UNCHANGED <<dq, dres, cfg, db, next_id, served, question, user_id,
                   locals, calls, escaped, response>>

(***************************************************************************)
(* enhanced_database.py: PropertyDatabase                                  *)
(***************************************************************************)
RECURSIVE SumTokensOf(_, _)
\* get_user_stats, lines 222-225: func.sum(Query.total_tokens_used) over
\* the rows of the user, 0 when there is none
SumTokensOf(rows, u) ==
    IF rows = <<>> THEN 0
    ELSE (IF Head(rows).user_id = u THEN Head(rows).total_tokens_used ELSE 0)
         + SumTokensOf(Tail(rows), u)

\* store_query, lines 147-159: the new row; total_tokens_used has the
\* default 0 when the caller passes none
NewQuery(id, q, answer, question_type, success, location_detected, llm_provider, confidence_score, u, total_tokens_used) ==
    [id |-> id, question |-> q, answer |-> answer,
     question_type |-> question_type, success |-> success,
     location_detected |-> location_detected, llm_provider |-> llm_provider,
     confidence_score |-> confidence_score, user_id |-> u,
     total_tokens_used |-> total_tokens_used]

(***************************************************************************)
(* app.py: the analyze endpoint and its helpers                            *)
(***************************************************************************)
\* str.strip() for blanks
RECURSIVE strip(_)
strip(s) ==
    IF s = <<>> THEN s
    ELSE IF Head(s) = " " THEN strip(Tail(s))
    ELSE IF s[Len(s)] = " " THEN strip(SubSeq(s, 1, Len(s) - 1))
    ELSE s

app_brisbane_words == <<
    <<"b", "r", "i", "s", "b", "a", "n", "e">>,
    <<"q", "u", "e", "e", "n", "s", "l", "a", "n", "d">>,
    <<"q", "l", "d">>>>
app_sydney_words == <<
    <<"s", "y", "d", "n", "e", "y">>,
    <<"n", "s", "w">>>>
app_melbourne_words == <<
    <<"m", "e", "l", "b", "o", "u", "r", "n", "e">>,
    <<"v", "i", "c", "t", "o", "r", "i", "a">>,
    <<"v", "i", "c">>>>
app_perth_words == <<
    <<"p", "e", "r", "t", "h">>,
    <<"w", "e", "s", "t", "e", "r", "n", " ", "a", "u", "s", "t", "r", "a", "l", "i", "a">>,
    <<"w", "a">>>>

\* lines 582-598
detect_location_from_question(q) ==
    IF q = <<>> THEN "National"
    ELSE LET question_lower == lower(q)
         IN  IF AnyKeyword(app_brisbane_words, question_lower) THEN "Brisbane"
             ELSE IF AnyKeyword(app_sydney_words, question_lower) THEN "Sydney"
             ELSE IF AnyKeyword(app_melbourne_words, question_lower) THEN "Melbourne"
             ELSE IF AnyKeyword(app_perth_words, question_lower) THEN "Perth"
             ELSE "National"

\* lines 600-609; {} is the default of the outer get
determine_llm_provider(r) ==
    IF Get(Get(r, "claude_result", [x \in {} |-> x]), "success", FALSE) THEN "claude"
    ELSE IF Get(Get(r, "gemini_result", [x \in {} |-> x]), "success", FALSE) THEN "gemini"
    ELSE "unknown"

\* the request texts: empty, blank, with a leading blank, plain, a preset
RequestQuestions == {
    <<>>,
    <<" ">>,
    <<" ", "Q", "L", "D", " ", "h", "o", "m", "e">>,
    <<"h", "o", "m", "e">> } \cup PRESET_QUESTIONS

\* lines 353-373: the early returns of the endpoint; nothing is started
E_Reject(has_body, q_raw) ==
    /\ pc = "idle"
    /\ ~has_body \/ strip(q_raw) = <<>> \/ ~cfg.property
    /\ response' = IF ~has_body \/ strip(q_raw) = <<>>
                   THEN [status |-> 400, success |-> FALSE]
                   ELSE [status |-> 500, success |-> FALSE]
    /\ question' = <<>>
    /\ user_id' = "anonymous"
    /\ locals' = NoValue
    /\ calls' = <<>>
    /\ result' = NoValue
    /\ escaped' = FALSE
    /\ UNCHANGED <<dq, dres, cfg, db, next_id, served, pc>>

\* lines 353-379: the request passes the checks and the pipeline is called
E_Accept(q_raw, u) ==
    /\ pc = "idle"
    /\ served < MaxRequests
    /\ strip(q_raw) # <<>>
    /\ cfg.property
    /\ served' = served + 1
    /\ question' = strip(q_raw)
    /\ user_id' = u
    /\ locals' = NoValue
    /\ calls' = <<>>
    /\ result' = NoValue
    /\ escaped' = FALSE
    /\ response' = NoValue
    /\ pc' = "v_start"
    /\ UNCHANGED <<dq, dres, cfg, db, next_id>>

\* enhanced_database.py, store_query, lines 145-169: the row is committed and
\* its id returned; or add or commit raises and the session is rolled back;
\* or the commit succeeds and reading new_query.id (lines 162-163), which
\* reloads the expired row from the database, raises: the rollback of line
\* 165 then has nothing to undo
StoreOutcomes == {"commit", "raise", "raise_after_commit"}

\* lines 380-422: tag, store a successful result, answer. When store_query
\* raises the endpoint logs that and answers without a query id.
E_Respond(store) ==
    /\ pc = "e_respond"
    /\ store \in (IF cfg.database /\ result.success THEN StoreOutcomes ELSE {"skip"})
    /\ LET location_detected == detect_location_from_question(question)
           llm_provider == determine_llm_provider(result)
           confidence == Get(result, "confidence", DefaultConfidence)
           query_id == IF store = "commit" THEN [kind |-> "id", id |-> next_id] ELSE None
       IN  /\ IF store \in {"commit", "raise_after_commit"}
              THEN /\ db' = Append(db, NewQuery(next_id, question, result.final_answer,
                                                Get(result, "question_type", "custom"),
                                                result.success, location_detected,
                                                llm_provider, confidence, user_id, 0))
                   /\ next_id' = next_id + 1
              ELSE UNCHANGED <<db, next_id>>
           /\ response' = [status |-> 200, success |-> result.success,
                           answer |-> result.final_answer, query_id |-> query_id,
                           user_id |-> user_id,
                           location_detected |-> location_detected,
                           llm_provider |-> llm_provider,
                           confidence |-> confidence]
    /\ pc' = "idle"
    /\ UNCHANGED <<dq, dres, cfg, served, question, user_id, locals, calls,
                   result, escaped>>

\* the deployments of the endpoint: without a property service there is no
\* LLM service either; the v3 pipeline has no web search
EndpointConfigs ==
    { c \in [claude : BOOLEAN, gemini : BOOLEAN, rss : {"absent", "available"},
             web : {"absent"}, database : BOOLEAN, property : BOOLEAN] :
        ~c.property => (~c.claude /\ ~c.gemini /\ c.rss = "absent") }

\* the table as the process finds it: empty, or with one row of an earlier
\* request of some user
InitialTables ==
    { <<>> } \cup
    { << NewQuery(1, <<"h", "o", "m", "e">>, LLMAnswer("gemini"), "custom", TRUE,
                  "National", "gemini", DefaultConfidence, u, t) >> :
        u \in Users, t \in {0, TokenCeiling} }

EndpointInit ==
    /\ dq = <<>>
    /\ dres = NoResult
    /\ cfg \in EndpointConfigs
    /\ db \in InitialTables
    /\ next_id = Len(db) + 1
    /\ served = 0
    /\ IdleRequest

EndpointNext ==
    \/ \E has_body \in BOOLEAN, q_raw \in RequestQuestions : E_Reject(has_body, q_raw)
    \/ \E q_raw \in RequestQuestions, u \in Users : E_Accept(q_raw, u)
    \/ V_Start
    \/ \E outcome \in {"articles", "empty", "raise"} : V_RssFetch(outcome)
    \/ V_RssSkip
    \/ \E outcome \in {"ok", "fail", "raise"}, tokens \in 0..MaxTok : V_Claude(outcome, tokens)
    \/ \E outcome \in {"ok", "fail", "raise"}, tokens \in 0..MaxTok : V_Gemini(outcome, tokens)
    \/ V_Format
    \/ \E store \in StoreOutcomes \cup {"skip"} : E_Respond(store)

SpecEndpoint == EndpointInit /\ [][EndpointNext]_vars

(***************************************************************************)
(* Detector inputs                                                         *)
(***************************************************************************)
\* pieces of question text: short keywords in both cases, halves of a long
\* keyword, the "wales" of 'new south wales', and text without any keyword
Fragments == {
    <<"q", "l", "d">>, <<"Q", "L", "D">>, <<"n", "s", "w">>,
    <<"v", "i", "c">>, <<"W", "a">>, <<"s", "a">>,
    <<"b", "r", "i", "s">>, <<"b", "a", "n", "e">>,
    <<"x">>, <<" ">>, <<"h", "o", "m", "e">> }

RECURSIVE TextsUpTo(_)
TextsUpTo(n) ==
    IF n = 0 THEN { <<>> }
    ELSE LET shorter == TextsUpTo(n - 1)
         IN  shorter \cup { t \o f : t \in shorter, f \in Fragments }

DetectInit ==
    /\ dq \in TextsUpTo(MaxFrags)
    /\ dres = NoResult
    /\ cfg = [claude |-> FALSE, gemini |-> FALSE, rss |-> "absent",
              web |-> "absent", database |-> FALSE, property |-> FALSE]
    /\ db = <<>>
    /\ next_id = 1
    /\ served = 0
    /\ IdleRequest

\* one call of each detector on the same question
ApplyDetect ==
    /\ dres = NoResult
    /\ dres' = [done     |-> TRUE,
                services |-> _detect_location(dq),
                legacy   |-> _detect_location_scope_legacy(dq),
                v3       |-> _detect_location_scope(dq),
                app      |-> detect_location_from_question(dq)]
    /\ UNCHANGED <<dq, cfg, db, next_id, served, reqvars>>

DetectNext == ApplyDetect

SpecDetect == DetectInit /\ [][DetectNext]_vars

(***************************************************************************)
(* services/llm_service.py: LLMService, the object itself. Under SpecLLM   *)
(* cfg holds the Config flags and the fields of the service object, calls  *)
(* holds the requests the last method call sent to a provider, result the  *)
(* value the last method call returned.                                    *)
(***************************************************************************)
\* curam-ai-python-v2/config.py, the model lists in priority order
CLAUDE_MODELS ==
    <<"claude-3-5-sonnet-20241022", "claude-3-haiku-20240307",
      "claude-3-sonnet-20240229">>

GEMINI_MODELS == <<"gemini-1.5-flash", "gemini-1.5-pro", "gemini-pro">>

\* what the provider client does with one request: it answers, or it raises
\* a network, timeout or HTTP error
ClientOutcomes == {"ok", "network_error", "timeout", "http_error"}

\* a client object of a provider library, and a Python string
Client(provider) == [kind |-> "client", provider |-> provider]

Str(value) == [kind |-> "str", value |-> value]

\* __init__, lines 19-22
NewLLMService(config) ==
    [Config |-> config, claude_client |-> None, gemini_model |-> None,
     working_claude_model |-> None, working_gemini_model |-> None]

\* the flags and keys of Config: *_API_KEY is TRUE when a key is set
LLMConfigs ==
    [CLAUDE_ENABLED : BOOLEAN, CLAUDE_API_KEY : BOOLEAN,
     GEMINI_ENABLED : BOOLEAN, GEMINI_API_KEY : BOOLEAN]

\* one test call of a probing loop
Probe(provider, model, answered) ==
    [kind |-> "probe", provider |-> provider, model |-> Str(model),
     network |-> TRUE, outcome |-> IF answered THEN "ok" ELSE "error"]

\* the candidates that answer their test call, for every way the provider
\* can behave: answers[i] says whether candidate i answers
ProbeAnswers(models) == [1..Len(models) -> BOOLEAN]

RECURSIVE ProbeLoop(_, _, _, _, _)
\* a probing loop that tries every candidate and keeps the last that
\* answered
ProbeLoopNoReturn(provider, models, answers, i, sent) ==
    LET answering == { k \in i..Len(models) : answers[k] }
    IN  [works |-> IF answering = {} THEN 0
                   ELSE CHOOSE k \in answering : \A m \in answering : m <= k,
         sent |-> sent \o [k \in 1..(Len(models) - i + 1) |->
                              Probe(provider, models[i + k - 1], answers[i + k - 1])]]

\* lines 91-103 (Claude) and 67-76 (Gemini): the candidates are tried in
\* order from position i; the first that answers its test call ends the
\* loop (return / break); works is its position, 0 when none answers
ProbeLoop(provider, models, answers, i, sent) ==
    IF i > Len(models) THEN [works |-> 0, sent |-> sent]
    ELSE IF answers[i]
    THEN [works |-> i, sent |-> Append(sent, Probe(provider, models[i], TRUE))]
    ELSE ProbeLoop(provider, models, answers, i + 1,
                   Append(sent, Probe(provider, models[i], FALSE)))

\* _init_claude with _test_claude_connection, lines 33-54 and 89-105: no
\* key -> return; import or client construction fails -> client None; the
\* first model that answers the test call is the working model; none
\* answers -> exception (line 105) -> client None (line 54)
_init_claude(self, lib_ok, answers) ==
    LET loop == ProbeLoop("claude", CLAUDE_MODELS, answers, 1, <<>>)
    IN  IF ~self.Config.CLAUDE_API_KEY THEN [self |-> self, sent |-> <<>>]
        ELSE IF ~lib_ok
        THEN [self |-> [self EXCEPT !.claude_client = None], sent |-> <<>>]
        ELSE IF loop.works = 0
        THEN [self |-> [self EXCEPT !.claude_client = None], sent |-> loop.sent]
        ELSE [self |-> [self EXCEPT !.claude_client = Client("claude"),
                                    !.working_claude_model = Str(CLAUDE_MODELS[loop.works])],
              sent |-> loop.sent]

\* _init_gemini with _test_gemini_connection, lines 56-87 and 107-110: the
\* loop is in the method itself; without a working model the model object
\* of the last candidate is dropped (lines 78-80)
_init_gemini(self, lib_ok, answers) ==
    LET loop == ProbeLoop("gemini", GEMINI_MODELS, answers, 1, <<>>)
    IN  IF ~self.Config.GEMINI_API_KEY THEN [self |-> self, sent |-> <<>>]
        ELSE IF ~lib_ok
        THEN [self |-> [self EXCEPT !.gemini_model = None], sent |-> <<>>]
        ELSE IF loop.works = 0
        THEN [self |-> [self EXCEPT !.gemini_model = None], sent |-> loop.sent]
        ELSE [self |-> [self EXCEPT !.gemini_model = Client("gemini"),
                                    !.working_gemini_model = Str(GEMINI_MODELS[loop.works])],
              sent |-> loop.sent]

\* one request of an analyze method to the provider client
AnalyzeRequest(provider, model, scope, outcome) ==
    [kind |-> "analyze", provider |-> provider, model |-> model,
     scope |-> scope, network |-> TRUE, outcome |-> outcome]

\* what a method call did: the value it returned, whether an exception
\* left it, and the requests it sent
Returns(value, sent) == [ret |-> value, raised |-> FALSE, sent |-> sent]
Raises(sent) == [ret |-> NoValue, raised |-> TRUE, sent |-> sent]

\* a method that calls the client although there is none
analyze_with_claude_location_unguarded(self, scope, outcome, text) ==
    Returns(_error_response("Claude analysis failed"),
            <<AnalyzeRequest("claude", Str(CLAUDE_MODELS[1]), scope, outcome)>>)

\* lines 112-143: no client -> error response, nothing sent (114-115); the
\* request is sent with the working model; an exception of the client is
\* caught (141-143)
analyze_with_claude_location(self, scope, outcome, text) ==
    IF self.claude_client = None
    THEN Returns(_error_response("Claude client not available"), <<>>)
    ELSE LET model == IF self.working_claude_model # None
                      THEN self.working_claude_model ELSE Str(CLAUDE_MODELS[1])
             sent == <<AnalyzeRequest("claude", model, scope, outcome)>>
         IN  IF outcome = "ok"
             THEN Returns([success |-> TRUE, analysis |-> text,
                           model_used |-> model, provider |-> "claude"], sent)
             ELSE Returns(_error_response("Claude analysis failed"), sent)

\* a method whose except clause lets the client's exception through
analyze_with_gemini_location_uncaught(self, scope, outcome, text) ==
    IF self.gemini_model = None
    THEN Returns(_error_response("Gemini model not available"), <<>>)
    ELSE IF outcome = "ok"
    THEN Returns([success |-> TRUE, analysis |-> text,
                  model_used |-> self.working_gemini_model,
                  provider |-> "gemini"],
                 <<AnalyzeRequest("gemini", self.working_gemini_model, scope, outcome)>>)
    ELSE Raises(<<AnalyzeRequest("gemini", self.working_gemini_model, scope, outcome)>>)

\* lines 145-172
analyze_with_gemini_location(self, scope, outcome, text) ==
    IF self.gemini_model = None
    THEN Returns(_error_response("Gemini model not available"), <<>>)
    ELSE LET model == IF self.working_gemini_model # None
                      THEN self.working_gemini_model ELSE Str(GEMINI_MODELS[1])
             sent == <<AnalyzeRequest("gemini", model, scope, outcome)>>
         IN  IF outcome = "ok"
             THEN Returns([success |-> TRUE, analysis |-> text,
                           model_used |-> model, provider |-> "gemini"], sent)
             ELSE Returns(_error_response("Gemini analysis failed"), sent)

\* lines 246-249: the legacy method detects the location itself
analyze_with_claude(self, q, outcome, text) ==
    analyze_with_claude_location(self, _detect_location_scope_legacy(q), outcome, text)

\* lines 251-254
analyze_with_gemini(self, q, outcome, text) ==
    analyze_with_gemini_location(self, _detect_location_scope_legacy(q), outcome, text)

\* the scopes a caller passes as location_info
LocationScopes == {"brisbane", "sydney", "national"}

\* the service object right after __init__ has set its fields to None
LLMInit ==
    /\ dq = <<>>
    /\ dres = NoResult
    /\ cfg \in { NewLLMService(c) : c \in LLMConfigs }
    /\ db = <<>>
    /\ next_id = 1
    /\ served = 0
    /\ pc = "l_init_claude"
    /\ question = <<>>
    /\ user_id = "anonymous"
    /\ locals = NoValue
    /\ calls = <<>>
    /\ result = NoValue
    /\ escaped = FALSE
    /\ response = NoValue

\* _initialize_clients, lines 27-28
L_InitClaude(lib_ok, answers) ==
    /\ pc = "l_init_claude"
    /\ LET r == IF cfg.Config.CLAUDE_ENABLED
                THEN _init_claude(cfg, lib_ok, answers)
                ELSE [self |-> cfg, sent |-> <<>>]
       IN  cfg' = r.self /\ calls' = calls \o r.sent
    /\ pc' = "l_init_gemini"
    /\ UNCHANGED <<dq, dres, db, next_id, served, question, user_id, locals,
                   result, escaped, response>>

\* _initialize_clients, lines 30-31
L_InitGemini(lib_ok, answers) ==
    /\ pc = "l_init_gemini"
    /\ LET r == IF cfg.Config.GEMINI_ENABLED
                THEN _init_gemini(cfg, lib_ok, answers)
                ELSE [self |-> cfg, sent |-> <<>>]
       IN  cfg' = r.self /\ calls' = calls \o r.sent
    /\ pc' = "l_ready"
    /\ UNCHANGED <<dq, dres, db, next_id, served, question, user_id, locals,
                   result, escaped, response>>

\* a method call that gives up the client of a provider whose call failed
LLMMethodCallDroppingClient(method, provider, r) ==
    /\ pc = "l_ready"
    /\ locals' = [method |-> method, provider |-> provider]
    /\ calls' = r.sent
    /\ result' = r.ret
    /\ escaped' = r.raised
    /\ cfg' = IF r.raised \/ r.ret.success THEN cfg
              ELSE IF provider = "claude"
              THEN [cfg EXCEPT !.claude_client = None, !.working_claude_model = None]
              ELSE [cfg EXCEPT !.gemini_model = None, !.working_gemini_model = None]
    /\ UNCHANGED <<dq, dres, db, next_id, served, pc, question, user_id,
                   response>>

\* a caller calls method on the constructed service and gets r; the
\* analyze methods assign to no field of the service
LLMMethodCall(method, provider, r) ==
    /\ pc = "l_ready"
    /\ locals' = [method |-> method, provider |-> provider]
    /\ calls' = r.sent
    /\ result' = r.ret
    /\ escaped' = r.raised
    /\ UNCHANGED <<dq, dres, cfg, db, next_id, served, pc, question, user_id,
                   response>>

L_AnalyzeClaudeLocation(scope, outcome) ==
    LLMMethodCall("analyze_with_claude_location", "claude",
                  analyze_with_claude_location(cfg, scope, outcome, "analysis"))

L_AnalyzeGeminiLocation(scope, outcome) ==
    LLMMethodCall("analyze_with_gemini_location", "gemini",
                  analyze_with_gemini_location(cfg, scope, outcome, "analysis"))

L_AnalyzeClaude(q, outcome) ==
    LLMMethodCall("analyze_with_claude", "claude",
                  analyze_with_claude(cfg, q, outcome, "analysis"))

L_AnalyzeGemini(q, outcome) ==
    LLMMethodCall("analyze_with_gemini", "gemini",
                  analyze_with_gemini(cfg, q, outcome, "analysis"))

LLMNext ==
    \/ \E lib_ok \in BOOLEAN, answers \in ProbeAnswers(CLAUDE_MODELS) : L_InitClaude(lib_ok, answers)
    \/ \E lib_ok \in BOOLEAN, answers \in ProbeAnswers(GEMINI_MODELS) : L_InitGemini(lib_ok, answers)
    \/ \E scope \in LocationScopes, outcome \in ClientOutcomes : L_AnalyzeClaudeLocation(scope, outcome)
    \/ \E scope \in LocationScopes, outcome \in ClientOutcomes : L_AnalyzeGeminiLocation(scope, outcome)
    \/ \E q \in PipelineQuestions, outcome \in ClientOutcomes : L_AnalyzeClaude(q, outcome)
    \/ \E q \in PipelineQuestions, outcome \in ClientOutcomes : L_AnalyzeGemini(q, outcome)

SpecLLM == LLMInit /\ [][LLMNext]_vars

(***************************************************************************)
(* The query store by itself: PropertyDatabase of enhanced_database.py     *)
(* (table queries, used by app.py) and PropertyDatabase of                 *)
(* curam-ai-python-v2/property_database.py (table property_queries, used   *)
(* by llm_pipeline.py). Under SpecStore cfg says which class the process   *)
(* uses, db is its table, locals the last method called and its id         *)
(* argument, result what the method returned.                              *)
(***************************************************************************)
\* at most MaxStored rows are inserted in one behaviour
MaxStored == 2

\* a Python value that is not None
Data(value) == [kind |-> "data", value |-> value]

\* seq[:n]
Take(seq, n) == SubSeq(seq, 1, IF n < Len(seq) THEN n ELSE Len(seq))

\* newest first
Reverse(seq) == [i \in 1..Len(seq) |-> seq[Len(seq) + 1 - i]]

\* the row with this id is in the table
HasId(rows, id) == \E i \in 1..Len(rows) : rows[i].id = id

\* the last method called on the store
StoreOp(op, query_id) == [op |-> op, query_id |-> query_id]

StoreInit ==
    /\ dq = <<>>
    /\ dres = NoResult
    /\ cfg \in { [database_class |-> c] : c \in {"enhanced", "v2"} }
    /\ db = <<>>
    /\ next_id = 1
    /\ served = 0
    /\ pc = "d_ready"
    /\ question = <<>>
    /\ user_id = "anonymous"
    /\ locals = NoValue
    /\ calls = <<>>
    /\ result = NoValue
    /\ escaped = FALSE
    /\ response = NoValue

\* enhanced_database.py, store_query, lines 136-169: the row is committed
\* and its id returned, or the session is rolled back and the exception
\* raised again, before the commit or after it
D_StoreQuery(success, u, tokens, outcome) ==
    /\ pc = "d_ready"
    /\ cfg.database_class = "enhanced"
    /\ next_id <= MaxStored
    /\ locals' = StoreOp("store_query", None)
    /\ IF outcome \in {"commit", "raise_after_commit"}
       THEN /\ db' = Append(db, NewQuery(next_id, <<"h", "o", "m", "e">>,
                                         LLMAnswer("gemini"), "custom", success,
                                         "National", "gemini", FinalConfidence,
                                         u, tokens))
            /\ next_id' = next_id + 1
       ELSE UNCHANGED <<db, next_id>>
    /\ result' = IF outcome = "commit" THEN Data(next_id) ELSE NoValue
    /\ escaped' = (outcome # "commit")
    /\ UNCHANGED <<dq, dres, cfg, served, pc, question, user_id, calls, response>>

\* get_query_history, lines 171-204: the rows of the user (all rows for a
\* falsy user_id, here ""), newest first, at most limit; the table is only read
D_GetQueryHistory(limit, u) ==
    /\ pc = "d_ready"
    /\ cfg.database_class = "enhanced"
    /\ locals' = StoreOp("get_query_history", None)
    /\ result' = Data(Take(Reverse(SelectSeq(db, LAMBDA r : u = "" \/ r.user_id = u)), limit))
    /\ escaped' = FALSE
    /\ UNCHANGED <<dq, dres, cfg, db, next_id, served, pc, question, user_id,
                   calls, response>>

\* get_user_stats, lines 206-257: counts and the token sum; only reads
D_GetUserStats(u) ==
    /\ pc = "d_ready"
    /\ cfg.database_class = "enhanced"
    /\ locals' = StoreOp("get_user_stats", None)
    /\ result' = Data([total_queries |-> Len(SelectSeq(db, LAMBDA r : r.user_id = u)),
                       successful_queries |-> Len(SelectSeq(db, LAMBDA r : r.user_id = u /\ r.success)),
                       failed_queries |-> Len(SelectSeq(db, LAMBDA r : r.user_id = u /\ ~r.success)),
                       total_tokens_used |-> SumTokensOf(db, u)])
    /\ escaped' = FALSE
    /\ UNCHANGED <<dq, dres, cfg, db, next_id, served, pc, question, user_id,
                   calls, response>>

\* delete_query with a DELETE that has no WHERE clause
D_DeleteQueryAll(query_id, outcome) ==
    /\ pc = "d_ready"
    /\ cfg.database_class = "enhanced"
    /\ locals' = StoreOp("delete_query", Data(query_id))
    /\ IF outcome = "raise"
       THEN /\ result' = NoValue /\ escaped' = TRUE /\ UNCHANGED db
       ELSE IF HasId(db, query_id)
       THEN /\ db' = <<>>
            /\ result' = Data(TRUE)
            /\ escaped' = FALSE
       ELSE /\ result' = Data(FALSE) /\ escaped' = FALSE /\ UNCHANGED db
    /\ UNCHANGED <<dq, dres, cfg, next_id, served, pc, question, user_id,
                   calls, response>>

\* delete_query, lines 347-368: the row with the id is deleted and True
\* returned; no such row -> False; a failing query or commit -> rollback
\* and raise
D_DeleteQuery(query_id, outcome) ==
    /\ pc = "d_ready"
    /\ cfg.database_class = "enhanced"
    /\ locals' = StoreOp("delete_query", Data(query_id))
    /\ IF outcome = "raise"
       THEN /\ result' = NoValue /\ escaped' = TRUE /\ UNCHANGED db
       ELSE IF HasId(db, query_id)
       THEN /\ db' = SelectSeq(db, LAMBDA r : r.id # query_id)
            /\ result' = Data(TRUE)
            /\ escaped' = FALSE
       ELSE /\ result' = Data(FALSE) /\ escaped' = FALSE /\ UNCHANGED db
    /\ UNCHANGED <<dq, dres, cfg, next_id, served, pc, question, user_id,
                   calls, response>>

\* curam-ai-python-v2/property_database.py, lines 151-157
stage_columns ==
    {"claude_analysis", "scraped_data", "gemini_processing",
     "huggingface_summary", "final_answer"}

\* store_query, lines 122-142, with the column defaults of lines 21-36
V2_StoreQuery(question_type) ==
    /\ pc = "d_ready"
    /\ cfg.database_class = "v2"
    /\ next_id <= MaxStored
    /\ locals' = StoreOp("store_query", None)
    /\ db' = Append(db, [id |-> next_id, question |-> <<"h", "o", "m", "e">>,
                         question_type |-> question_type,
                         claude_analysis |-> None, scraped_data |-> None,
                         gemini_processing |-> None,
                         huggingface_summary |-> None, final_answer |-> None,
                         success |-> FALSE])
    /\ next_id' = next_id + 1
    /\ result' = Data(next_id)
    /\ escaped' = FALSE
    /\ UNCHANGED <<dq, dres, cfg, served, pc, question, user_id, calls, response>>

\* update_query_stage, lines 144-173: UPDATE ... SET <column> = data,
\* success = success WHERE id = query_id, for a known stage
V2_UpdateQueryStage(query_id, stage, success) ==
    /\ pc = "d_ready"
    /\ cfg.database_class = "v2"
    /\ locals' = StoreOp("update_query_stage", Data(query_id))
    /\ db' = IF stage \in stage_columns
             THEN [i \in 1..Len(db) |->
                      IF db[i].id = query_id
                      THEN [db[i] EXCEPT ![stage] = Data("text"), !.success = success]
                      ELSE db[i]]
             ELSE db
    /\ result' = None
    /\ escaped' = FALSE
    /\ UNCHANGED <<dq, dres, cfg, next_id, served, pc, question, user_id,
                   calls, response>>

\* clear_all_data, lines 374-391: DELETE FROM property_queries
V2_ClearAllData ==
    /\ pc = "d_ready"
    /\ cfg.database_class = "v2"
    /\ locals' = StoreOp("clear_all_data", None)
    /\ db' = <<>>
    /\ result' = None
    /\ escaped' = FALSE
    /\ UNCHANGED <<dq, dres, cfg, next_id, served, pc, question, user_id,
                   calls, response>>

StoreNext ==
    \/ \E success \in BOOLEAN, u \in Users, tokens \in 0..MaxTok, outcome \in StoreOutcomes :
           D_StoreQuery(success, u, tokens, outcome)
    \/ \E limit \in {1, 20}, u \in Users \cup {""} : D_GetQueryHistory(limit, u)
    \/ \E u \in Users : D_GetUserStats(u)
    \/ \E query_id \in 1..MaxStored, outcome \in {"commit", "raise"} : D_DeleteQuery(query_id, outcome)
    \/ \E question_type \in {"custom", "preset"} : V2_StoreQuery(question_type)
    \/ \E query_id \in 1..MaxStored, stage \in {"claude_analysis", "final_answer", "summary"}, success \in BOOLEAN :
           V2_UpdateQueryStage(query_id, stage, success)
    \/ V2_ClearAllData

SpecStore == StoreInit /\ [][StoreNext]_vars

(***************************************************************************)
(* services/rss_service.py: RSSService.get_recent_news and _fetch_feed.    *)
(* Under SpecRss cfg holds the feed list, locals the local variables of    *)
(* get_recent_news, calls the outcome of each feed request, result the     *)
(* list returned.                                                          *)
(***************************************************************************)
\* lines 19-40
feeds == <<
    [name |-> "RealEstate.com.au", active |-> TRUE],
    [name |-> "Smart Property Investment", active |-> TRUE],
    [name |-> "PropertyMe Blog", active |-> TRUE],
    [name |-> "View.com.au Property News", active |-> TRUE] >>

\* line 108: at most 5 entries of a feed are used
EntriesPerFeed == 5

\* what the request and the parse of one feed give: the published
\* timestamps of the entries of a well-formed feed ("ok") or of a feed that
\* feedparser flags as malformed ("bozo"), a response that is not 200, an
\* exception of requests, or any other exception
FeedOutcomes ==
    { [kind |-> k, entries |-> e] :
        k \in {"ok", "bozo"}, e \in { <<>>, <<2>>, <<1, 1, 1, 1, 1, 1>> } }
    \cup { [kind |-> k, entries |-> <<>>] :
        k \in {"non_200", "request_exception", "exception"} }

\* lines 106-137: one article per entry, for the first 5 entries
ArticlesOf(feed_config, entries) ==
    [i \in 1..Len(Take(entries, EntriesPerFeed)) |->
        [source |-> feed_config.name, published_timestamp |-> entries[i]]]

\* a _fetch_feed that returns the entries it could read whatever happened
_fetch_feed_lenient(feed_config, outcome) ==
    Returns(ArticlesOf(feed_config, <<2>>), <<>>)

\* lines 87-144: non-200 -> []; a malformed feed is logged (103-104) and
\* its entries are used; every exception is caught and gives []
_fetch_feed(feed_config, outcome) ==
    IF outcome.kind \in {"ok", "bozo"}
    THEN Returns(ArticlesOf(feed_config, outcome.entries), <<>>)
    ELSE Returns(<<>>, <<>>)

RECURSIVE SortByTimestampDesc(_)
\* line 66: list.sort(key=published_timestamp, reverse=True); the sort is
\* stable, equal timestamps keep their order
SortByTimestampDesc(articles) ==
    IF articles = <<>> THEN <<>>
    ELSE LET last == articles[Len(articles)]
             sorted == SortByTimestampDesc(SubSeq(articles, 1, Len(articles) - 1))
             before == SelectSeq(sorted, LAMBDA a : a.published_timestamp >= last.published_timestamp)
             after == SelectSeq(sorted, LAMBDA a : a.published_timestamp < last.published_timestamp)
         IN  before \o <<last>> \o after

RssInit ==
    /\ dq = <<>>
    /\ dres = NoResult
    /\ cfg = [feeds |-> feeds]
    /\ db = <<>>
    /\ next_id = 1
    /\ served = 0
    /\ pc = "r_idle"
    /\ question = <<>>
    /\ user_id = "anonymous"
    /\ locals = NoValue
    /\ calls = <<>>
    /\ result = NoValue
    /\ escaped = FALSE
    /\ response = NoValue

\* line 49-51: a call of get_recent_news
R_GetRecentNews(max_articles) ==
    /\ pc = "r_idle"
    /\ result = NoValue
    /\ locals' = [max_articles |-> max_articles, all_articles |-> <<>>, i |-> 1]
    /\ pc' = "r_loop"
    /\ UNCHANGED <<dq, dres, cfg, db, next_id, served, question, user_id,
                   calls, result, escaped, response>>

\* lines 53-63: one turn of the loop over the feeds; an exception of
\* _fetch_feed is caught and the loop continues
R_FetchFeed(outcome) ==
    /\ pc = "r_loop"
    /\ locals.i <= Len(cfg.feeds)
    /\ LET feed_config == cfg.feeds[locals.i]
           r == _fetch_feed(feed_config, outcome)
       IN  IF ~feed_config.active
           THEN /\ locals' = [locals EXCEPT !.i = @ + 1]
                /\ UNCHANGED calls
           ELSE /\ calls' = Append(calls, [kind |-> "feed", name |-> feed_config.name,
                                           outcome |-> outcome.kind])
                /\ locals' = [locals EXCEPT
                                 !.i = @ + 1,
                                 !.all_articles = IF r.raised THEN @ ELSE @ \o r.ret]
    /\ UNCHANGED <<dq, dres, cfg, db, next_id, served, pc, question, user_id,
                   result, escaped, response>>

\* lines 65-67: sort, cut to max_articles, return
R_Return ==
    /\ pc = "r_loop"
    /\ locals.i > Len(cfg.feeds)
    /\ result' = Data(Take(SortByTimestampDesc(locals.all_articles), locals.max_articles))
    /\ pc' = "r_idle"
    /\ UNCHANGED <<dq, dres, cfg, db, next_id, served, question, user_id,
                   locals, calls, escaped, response>>

RssNext ==
    \/ \E max_articles \in {1, 10} : R_GetRecentNews(max_articles)
    \/ \E outcome \in FeedOutcomes : R_FetchFeed(outcome)
    \/ R_Return

SpecRss == RssInit /\ [][RssNext]_vars

(***************************************************************************)
(* services/web_search_service.py: WebSearchService, and the lines of the  *)
(* orchestrator that use its results. Under SpecSearch cfg holds the       *)
(* fields of the service, locals the query and what the orchestrator built *)
(* from the results, result the dictionary search returned.                *)
(***************************************************************************)
\* config.py lines 36-37
GOOGLE_CSE_TOP_N_RESULTS == 3

GOOGLE_CSE_SNIPPET_MAX_LENGTH == 300

\* a text of n characters
TextOfLength(n) == [i \in 1..n |-> "x"]

\* the items of an API answer: without a snippet, or with a snippet that is
\* empty, exactly as long as the maximum, or one character longer
ApiItems ==
    { [title |-> "t", link |-> "l"] } \cup
    { [title |-> "t", link |-> "l", snippet |-> TextOfLength(n)] :
        n \in {0, GOOGLE_CSE_SNIPPET_MAX_LENGTH, GOOGLE_CSE_SNIPPET_MAX_LENGTH + 1} }

RECURSIVE ItemListsUpTo(_)
\* the item lists of at most n items
ItemListsUpTo(n) ==
    IF n = 0 THEN { <<>> }
    ELSE LET shorter == ItemListsUpTo(n - 1)
         IN  shorter \cup { Append(l, item) : l \in shorter, item \in ApiItems }

\* what the HTTP request of search gives: a JSON answer with items, a 4xx
\* or 5xx status, a network error, or an answer that is not JSON
SearchOutcomes ==
    { [kind |-> "json", items |-> l] : l \in ItemListsUpTo(GOOGLE_CSE_TOP_N_RESULTS + 1) }
    \cup { [kind |-> k, items |-> <<>>] : k \in {"http_status", "network", "not_json"} }

\* __init__, lines 14-27
NewWebSearchService(api_key, cx) ==
    [api_key |-> api_key, cx |-> cx,
     top_n_results |-> GOOGLE_CSE_TOP_N_RESULTS,
     snippet_max_length |-> GOOGLE_CSE_SNIPPET_MAX_LENGTH,
     is_available |-> api_key /\ cx]

\* line 66: item.get('snippet', '')[:max] + "..." when the snippet is
\* longer than max, item.get('snippet') otherwise
FormatSnippet(self, item) ==
    LET snippet == Get(item, "snippet", <<>>)
    IN  IF Len(snippet) > self.snippet_max_length
        THEN Data(SubSeq(snippet, 1, self.snippet_max_length) \o <<".", ".", ".">>)
        ELSE IF "snippet" \in DOMAIN item THEN Data(item.snippet) ELSE None

\* lines 40-80
search(self, query, outcome) ==
    IF ~self.is_available
    THEN Returns([success |-> FALSE, error |-> "Web search not configured."], <<>>)
    ELSE LET sent == << [kind |-> "search", query |-> query,
                         num |-> self.top_n_results, network |-> TRUE,
                         outcome |-> outcome.kind] >>
         IN  IF outcome.kind = "json"
             THEN Returns([success |-> TRUE, query |-> query,
                           results |-> [i \in 1..Len(outcome.items) |->
                               [title |-> outcome.items[i].title,
                                link |-> outcome.items[i].link,
                                snippet |-> FormatSnippet(self, outcome.items[i])]]],
                          sent)
             ELSE Returns([success |-> FALSE, error |-> outcome.kind], sent)

SearchInit ==
    /\ dq = <<>>
    /\ dres = NoResult
    /\ cfg \in { NewWebSearchService(k, c) : k \in BOOLEAN, c \in BOOLEAN }
    /\ db = <<>>
    /\ next_id = 1
    /\ served = 0
    /\ pc = "w_idle"
    /\ question = <<>>
    /\ user_id = "anonymous"
    /\ locals = NoValue
    /\ calls = <<>>
    /\ result = NoValue
    /\ escaped = FALSE
    /\ response = NoValue

\* services/property_service.py line 70: the orchestrator awaits search
W_Search(query, outcome) ==
    /\ pc = "w_idle"
    /\ LET r == search(cfg, query, outcome)
       IN  /\ calls' = r.sent
           /\ result' = r.ret
           /\ escaped' = r.raised
    /\ locals' = [query |-> query]
    /\ pc' = "w_returned"
    /\ UNCHANGED <<dq, dres, cfg, db, next_id, served, question, user_id,
                   response>>

\* services/property_service.py lines 71-78: a successful answer is cut to
\* Config.GOOGLE_CSE_TOP_N_RESULTS results for the prompt; the module does
\* not import Config, the name lookup raises and no context is built. A
\* failed search is logged and the context stays empty.
W_BuildContext ==
    /\ pc = "w_returned"
    /\ locals' = SetLocal(locals, "search_results_context", <<>>)
    /\ escaped' = result.success
    /\ pc' = "w_idle"
    /\ UNCHANGED <<dq, dres, cfg, db, next_id, served, question, user_id,
                   calls, result, response>>

SearchNext ==
    \/ \E query \in {<<"q">>}, outcome \in SearchOutcomes : W_Search(query, outcome)
    \/ W_BuildContext

SpecSearch == SearchInit /\ [][SearchNext]_vars

(***************************************************************************)
(* RealRSSService (curam-ai-python-v2/services/property_service_real.py):  *)
(* fetch_feed with its one-hour feed cache, and clear_cache, called from   *)
(* two threads on the module's single rss_service object. Under SpecCache  *)
(* db is self.feed_cache, next_id is the clock datetime.now() reads,       *)
(* served counts the calls made, and pc, locals, result and escaped hold   *)
(* one value per thread. A thread can be preempted between any two         *)
(* statements; a single dict operation is atomic.                          *)
(***************************************************************************)
MaxTime == 3
MaxCalls == 3

\* line 103: timedelta(hours=1); the clock counts half hours
cache_duration == 2

Threads == {"t1", "t2"}

\* lines 21-93: the keys of self.rss_feeds, and one key that is not among them
rss_feeds == {"realestate_news"}
FeedKeyInputs == rss_feeds \cup {"unknown_feed"}

\* line 118
CacheKeyOf(feed_key) == <<feed_key, "_cache">>

EmptyCache == [k \in {} |-> NoValue]

\* lines 131-140: what requests.get, raise_for_status and feedparser.parse
\* can do; a malformed document does not raise, it sets feed.bozo
FetchOutcomes ==
    {[kind |-> "ok", entries |-> 1]}
    \cup {[kind |-> "bozo", entries |-> n] : n \in 0..1}
    \cup {[kind |-> k, entries |-> 0] : k \in {"request_error", "parse_error"}}

\* lines 146-170
FeedData(feed_key, outcome, now) ==
    [feed_key |-> feed_key, entries_count |-> outcome.entries,
     fetched_at |-> now, success |-> TRUE]

\* lines 287-302, with a success flag that is not cleared
_get_fallback_data_success(feed_key, now) ==
    [feed_key |-> feed_key, entries_count |-> 0, fetched_at |-> now,
     success |-> TRUE]

\* lines 287-302
_get_fallback_data(feed_key, now) ==
    [feed_key |-> feed_key, entries_count |-> 0, fetched_at |-> now,
     success |-> FALSE]

\* line 121 with <= for <
IsFreshInclusive(now, cached_time, duration) == now - cached_time <= duration

\* line 121
IsFresh(now, cached_time, duration) == now - cached_time < duration

IdleThread ==
    [op |-> "none", feed_key |-> "", call |-> 0, cached |-> None,
     checked_at |-> None, outcome |-> None, feed_data |-> None]

CacheInit ==
    /\ dq = <<>>
    /\ dres = NoResult
    /\ cfg = [cache_duration |-> cache_duration]
    /\ db = EmptyCache
    /\ next_id = 0
    /\ served = 0
    /\ pc = [t \in Threads |-> "idle"]
    /\ question = <<>>
    /\ user_id = ""
    /\ locals = [t \in Threads |-> IdleThread]
    /\ calls = {}
    /\ result = [t \in Threads |-> NoValue]
    /\ escaped = [t \in Threads |-> FALSE]
    /\ response = NoValue

\* lines 106-115: the call and its two early returns (every feed is active)
F_Call(t, feed_key) ==
    /\ pc[t] = "idle"
    /\ served < MaxCalls
    /\ served' = served + 1
    /\ locals' = [locals EXCEPT ![t] =
                    [IdleThread EXCEPT !.op = "fetch_feed",
                                       !.feed_key = feed_key,
                                       !.call = served + 1]]
    /\ escaped' = [escaped EXCEPT ![t] = FALSE]
    /\ IF feed_key \in rss_feeds
       THEN /\ pc' = [pc EXCEPT ![t] = "f_contains"]
            /\ result' = [result EXCEPT ![t] = NoValue]
       ELSE /\ pc' = pc
            /\ result' = [result EXCEPT ![t] = None]
    /\ UNCHANGED <<dq, dres, cfg, db, next_id, question, user_id, calls,
                   response>>

\* line 119: if cache_key in self.feed_cache
F_Contains(t) ==
    /\ pc[t] = "f_contains"
    /\ pc' = [pc EXCEPT ![t] =
                IF CacheKeyOf(locals[t].feed_key) \in DOMAIN db
                THEN "f_getitem" ELSE "f_request"]
    /\ UNCHANGED <<dq, dres, cfg, db, next_id, served, question, user_id,
                   locals, calls, result, escaped, response>>

\* line 120: cached_data, cached_time = self.feed_cache[cache_key]; the
\* subscript raises KeyError, outside the try of line 125, when the key has
\* gone since line 119
F_GetItem(t) ==
    /\ pc[t] = "f_getitem"
    /\ IF CacheKeyOf(locals[t].feed_key) \in DOMAIN db
       THEN /\ locals' = [locals EXCEPT ![t].cached =
                            Data(db[CacheKeyOf(locals[t].feed_key)])]
            /\ pc' = [pc EXCEPT ![t] = "f_fresh"]
            /\ escaped' = escaped
       ELSE /\ locals' = locals
            /\ pc' = [pc EXCEPT ![t] = "idle"]
            /\ escaped' = [escaped EXCEPT ![t] = TRUE]
    /\ UNCHANGED <<dq, dres, cfg, db, next_id, served, question, user_id,
                   calls, result, response>>

\* lines 121-123: the age test and the return of the cached record
F_Fresh(t) ==
    /\ pc[t] = "f_fresh"
    /\ locals' = [locals EXCEPT ![t].checked_at = Data(next_id)]
    /\ IF IsFresh(next_id, locals[t].cached.value[2], cfg.cache_duration)
       THEN /\ result' = [result EXCEPT ![t] =
                            Data(locals[t].cached.value[1])]
            /\ pc' = [pc EXCEPT ![t] = "idle"]
       ELSE /\ result' = result
            /\ pc' = [pc EXCEPT ![t] = "f_request"]
    /\ UNCHANGED <<dq, dres, cfg, db, next_id, served, question, user_id,
                   calls, escaped, response>>

\* lines 125-170 and 178-184: the request, the parse and the feed record;
\* an exception returns the fallback record
F_Request(t, outcome) ==
    /\ pc[t] = "f_request"
    /\ calls' = calls \cup {[thread |-> t, call |-> locals[t].call,
                             feed_key |-> locals[t].feed_key]}
    /\ IF outcome.kind \in {"ok", "bozo"}
       THEN /\ locals' = [locals EXCEPT
                            ![t].outcome = Data(outcome.kind),
                            ![t].feed_data =
                                Data(FeedData(locals[t].feed_key, outcome,
                                              next_id))]
            /\ pc' = [pc EXCEPT ![t] = "f_store"]
            /\ result' = result
       ELSE /\ locals' = [locals EXCEPT ![t].outcome = Data(outcome.kind)]
            /\ pc' = [pc EXCEPT ![t] = "idle"]
            /\ result' = [result EXCEPT ![t] =
                            Data(_get_fallback_data(locals[t].feed_key,
                                                    next_id))]
    /\ UNCHANGED <<dq, dres, cfg, db, next_id, served, question, user_id,
                   escaped, response>>

\* lines 172-176: self.feed_cache[cache_key] = (feed_data, datetime.now())
F_Store(t) ==
    /\ pc[t] = "f_store"
    /\ db' = [k \in DOMAIN db \cup {CacheKeyOf(locals[t].feed_key)} |->
                IF k = CacheKeyOf(locals[t].feed_key)
                THEN <<locals[t].feed_data.value, next_id>>
                ELSE db[k]]
    /\ result' = [result EXCEPT ![t] = locals[t].feed_data]
    /\ pc' = [pc EXCEPT ![t] = "idle"]
    /\ UNCHANGED <<dq, dres, cfg, next_id, served, question, user_id,
                   locals, calls, escaped, response>>

\* lines 304-307
ClearCache(t) ==
    /\ pc[t] = "idle"
    /\ served < MaxCalls
    /\ served' = served + 1
    /\ db' = EmptyCache
    /\ locals' = [locals EXCEPT ![t] =
                    [IdleThread EXCEPT !.op = "clear_cache",
                                       !.call = served + 1]]
    /\ result' = [result EXCEPT ![t] = None]
    /\ escaped' = [escaped EXCEPT ![t] = FALSE]
    /\ UNCHANGED <<dq, dres, cfg, next_id, pc, question, user_id, calls,
                   response>>

\* the clock datetime.now() reads moves on
Tick ==
    /\ next_id < MaxTime
    /\ next_id' = next_id + 1
    /\ UNCHANGED <<dq, dres, cfg, db, served, pc, question, user_id, locals,
                   calls, result, escaped, response>>

CacheNext ==
    \/ \E t \in Threads, feed_key \in FeedKeyInputs : F_Call(t, feed_key)
    \/ \E t \in Threads : F_Contains(t)
    \/ \E t \in Threads : F_GetItem(t)
    \/ \E t \in Threads : F_Fresh(t)
    \/ \E t \in Threads, outcome \in FetchOutcomes : F_Request(t, outcome)
    \/ \E t \in Threads : F_Store(t)
    \/ \E t \in Threads : ClearCache(t)
    \/ Tick

SpecCache == CacheInit /\ [][CacheNext]_vars

(***************************************************************************)
(* curam-ai-python-v3/llm_pipeline.py: the generator                       *)
(* BrisbanePropertyPipeline.process_query. Under SpecProgress cfg names    *)
(* the class behind self.db, locals holds the generator's local variables, *)
(* calls is the sequence of statuses yielded so far, db the stage columns  *)
(* written for the query, and escaped says that an exception left the      *)
(* generator. The consumer resumes the generator after every yield, so     *)
(* each action runs from one yield to the next.                            *)
(***************************************************************************)
\* line 18 imports PropertyDatabase from the module named database, which is
\* curam-ai-python-v3/database.py; the methods process_query calls are those
\* of curam-ai-python-v2/property_database.py
DatabaseClasses == {"database", "property_database"}

\* curam-ai-python-v3/database.py lines 41-159 and
\* curam-ai-python-v2/property_database.py lines 122-175: the methods of
\* each class that process_query uses
HasMethod(database_class, method) ==
    \/ method = "store_query"
    \/ /\ database_class = "property_database"
       /\ method \in {"update_query_stage", "add_processing_log"}

\* a call self.db.<method>(...) inside the try block raises when the class
\* has no such method (AttributeError) or when the method re-raises a
\* database error; add_processing_log catches its own database errors
DbCallRaises(method, db_ok) ==
    \/ ~HasMethod(cfg.database, method)
    \/ ~db_ok /\ method # "add_processing_log"

ProgressInit ==
    /\ dq = <<>>
    /\ dres = NoResult
    /\ cfg \in {[database |-> d, query_type |-> qt] :
                    d \in DatabaseClasses, qt \in {"custom", "preset"}}
    /\ db = <<>>
    /\ next_id = 1
    /\ served = 0
    /\ pc = "p_idle"
    /\ question = <<>>
    /\ user_id = ""
    /\ locals = [query_id |-> None, claude_analysis |-> None,
                 scraped_data |-> None, gemini_insights |-> None]
    /\ calls = <<>>
    /\ result = NoValue
    /\ escaped = FALSE
    /\ response = NoValue

\* lines 134-141: the except clause; add_processing_log is called outside
\* any try block, so an exception it raises leaves the generator before the
\* error update is yielded
P_Except(query_id) ==
    /\ pc' = "p_done"
    /\ IF query_id # None /\ DbCallRaises("add_processing_log", TRUE)
       THEN calls' = calls /\ escaped' = TRUE
       ELSE calls' = Append(calls, "error") /\ escaped' = FALSE

\* a step of the try block: the exception goes to the except clause,
\* otherwise the step yields its status
P_Step(raises, query_id, status, next_pc) ==
    IF raises
    THEN P_Except(query_id)
    ELSE /\ calls' = Append(calls, status)
         /\ pc' = next_pc
         /\ escaped' = FALSE

\* lines 77-83
P_Start(q, db_ok) ==
    /\ pc = "p_idle"
    /\ question' = q
    /\ served' = served + 1
    /\ locals' = [locals EXCEPT !.query_id =
                    IF DbCallRaises("store_query", db_ok) THEN None
                    ELSE Data(next_id)]
    /\ next_id' = IF DbCallRaises("store_query", db_ok) THEN next_id
                  ELSE next_id + 1
    /\ P_Step(DbCallRaises("store_query", db_ok), None, "started", "p_started")
    /\ UNCHANGED <<dq, dres, cfg, db, user_id, result, response>>

\* line 86
P_ClaudeAnalysis ==
    /\ pc = "p_started"
    /\ P_Step(FALSE, locals.query_id, "claude_analysis", "p_claude_analysis")
    /\ UNCHANGED <<dq, dres, cfg, db, next_id, served, question, user_id,
                   locals, result, response>>

\* lines 87-94
P_Claude(claude_analysis, db_ok) ==
    /\ pc = "p_claude_analysis"
    /\ locals' = [locals EXCEPT !.claude_analysis = Data(claude_analysis)]
    /\ LET raises == \/ claude_analysis = <<>>
                     \/ DbCallRaises("update_query_stage", db_ok)
                     \/ DbCallRaises("add_processing_log", db_ok)
       IN  /\ db' = IF raises THEN db ELSE Append(db, "claude_analysis")
           /\ P_Step(raises, locals.query_id, "claude_complete",
                     "p_claude_complete")
    /\ UNCHANGED <<dq, dres, cfg, next_id, served, question, user_id,
                   result, response>>

\* line 97
P_Scraping ==
    /\ pc = "p_claude_complete"
    /\ P_Step(FALSE, locals.query_id, "scraping", "p_scraping")
    /\ UNCHANGED <<dq, dres, cfg, db, next_id, served, question, user_id,
                   locals, result, response>>

\* lines 98-106: scraped is the number of sources _scrape_relevant_data
\* found; with none the mock data take their place
P_Scrape(scraped, db_ok) ==
    /\ pc = "p_scraping"
    /\ locals' = [locals EXCEPT !.scraped_data = Data(scraped)]
    /\ IF scraped > 0
       THEN LET raises == \/ DbCallRaises("update_query_stage", db_ok)
                          \/ DbCallRaises("add_processing_log", db_ok)
            IN  /\ db' = IF raises THEN db ELSE Append(db, "scraped_data")
                /\ P_Step(raises, locals.query_id, "scraping_complete",
                          "p_scraped")
       ELSE /\ db' = db
            /\ P_Step(FALSE, locals.query_id, "scraping_warning", "p_scraped")
    /\ UNCHANGED <<dq, dres, cfg, next_id, served, question, user_id,
                   result, response>>

\* line 109
P_GeminiProcessing ==
    /\ pc = "p_scraped"
    /\ P_Step(FALSE, locals.query_id, "gemini_processing",
              "p_gemini_processing")
    /\ UNCHANGED <<dq, dres, cfg, db, next_id, served, question, user_id,
                   locals, result, response>>

\* lines 110-117
P_Gemini(gemini_insights, db_ok) ==
    /\ pc = "p_gemini_processing"
    /\ locals' = [locals EXCEPT !.gemini_insights = Data(gemini_insights)]
    /\ LET raises == \/ gemini_insights = <<>>
                     \/ DbCallRaises("update_query_stage", db_ok)
                     \/ DbCallRaises("add_processing_log", db_ok)
       IN  /\ db' = IF raises THEN db ELSE Append(db, "gemini_processing")
           /\ P_Step(raises, locals.query_id, "gemini_complete",
                     "p_gemini_complete")
    /\ UNCHANGED <<dq, dres, cfg, next_id, served, question, user_id,
                   result, response>>

\* line 120
P_Formatting ==
    /\ pc = "p_gemini_complete"
    /\ P_Step(FALSE, locals.query_id, "formatting", "p_formatting")
    /\ UNCHANGED <<dq, dres, cfg, db, next_id, served, question, user_id,
                   locals, result, response>>

\* lines 121-132
P_Complete(format_ok, db_ok) ==
    /\ pc = "p_formatting"
    /\ LET raises == \/ ~format_ok
                     \/ DbCallRaises("update_query_stage", db_ok)
                     \/ DbCallRaises("add_processing_log", db_ok)
       IN  /\ db' = IF raises THEN db ELSE Append(db, "final_answer")
           /\ result' = IF raises THEN result
                        ELSE [final_answer |-> locals.gemini_insights,
                              query_id |-> locals.query_id]
           /\ P_Step(raises, locals.query_id, "complete", "p_done")
    /\ UNCHANGED <<dq, dres, cfg, next_id, served, question, user_id,
                   locals, response>>

ProgressTexts == {<<>>, <<"o", "k">>}

ProgressNext ==
    \/ \E q \in PipelineQuestions, db_ok \in BOOLEAN : P_Start(q, db_ok)
    \/ P_ClaudeAnalysis
    \/ \E claude_analysis \in ProgressTexts, db_ok \in BOOLEAN :
           P_Claude(claude_analysis, db_ok)
    \/ P_Scraping
    \/ \E scraped \in 0..2, db_ok \in BOOLEAN : P_Scrape(scraped, db_ok)
    \/ P_GeminiProcessing
    \/ \E gemini_insights \in ProgressTexts, db_ok \in BOOLEAN :
           P_Gemini(gemini_insights, db_ok)
    \/ P_Formatting
    \/ \E format_ok \in BOOLEAN, db_ok \in BOOLEAN : P_Complete(format_ok, db_ok)

SpecProgress == ProgressInit /\ [][ProgressNext]_vars

(***************************************************************************)
(* Properties of the location detectors (checked under SpecDetect)         *)
(***************************************************************************)
\* the lower-case letter of each upper-case letter the inputs use
FoldTable == [Q |-> "q", L |-> "l", D |-> "d", W |-> "w", A |-> "a", S |-> "s"]

Fold(c) == IF c \in DOMAIN FoldTable THEN FoldTable[c] ELSE c

\* keyword kw occurs in text s at some offset, letter case of s ignored
Mentions(kw, s) ==
    \E off \in 0..(Len(s) - Len(kw)) :
        \A j \in 1..Len(kw) : Fold(s[off + j]) = kw[j]

MentionsAny(keywords, s) ==
    \E k \in 1..Len(keywords) : Mentions(keywords[k], s)

\* the entries of a table that have a keyword in s
MatchingEntries(T, s) == { i \in 1..Len(T) : MentionsAny(T[i].keywords, s) }

\* scope of the first matching entry in table order, or the default
FirstMatchScope(T, s, default) ==
    LET M == MatchingEntries(T, s)
    IN  IF M = {} THEN default
        ELSE T[CHOOSE i \in M : \A j \in M : i <= j].scope

LegacyTable == <<
    [scope |-> "brisbane",  keywords |-> legacy_brisbane_keywords],
    [scope |-> "sydney",    keywords |-> legacy_sydney_keywords],
    [scope |-> "melbourne", keywords |-> legacy_melbourne_keywords],
    [scope |-> "perth",     keywords |-> legacy_perth_keywords],
    [scope |-> "adelaide",  keywords |-> legacy_adelaide_keywords] >>

V3Table == <<
    [scope |-> "brisbane",  keywords |-> v3_brisbane_keywords],
    [scope |-> "sydney",    keywords |-> v3_sydney_keywords],
    [scope |-> "melbourne", keywords |-> v3_melbourne_keywords],
    [scope |-> "perth",     keywords |-> v3_perth_keywords],
    [scope |-> "adelaide",  keywords |-> v3_adelaide_keywords] >>

\* C9: location detection is first-match in table order. For every input,
\* _detect_location returns the scope of the first entry of the ordered
\* table that has a keyword occurring in the lower-cased input, and National
\* when no entry matches (the empty input included); the legacy detector of
\* LLMService does the same with its own scope names; an input with both a
\* Brisbane and a Sydney keyword resolves to Brisbane.
C9_FirstMatchInTableOrder ==
    dres.done =>
        /\ dres.services = FirstMatchScope(location_mapping, dq, "National")
        /\ dres.legacy = FirstMatchScope(LegacyTable, dq, "national")
        /\ (dq = <<>> => dres.services = "National")
        /\ (   /\ MentionsAny(location_mapping[1].keywords, dq)
               /\ MentionsAny(location_mapping[2].keywords, dq)
            => dres.services = "Brisbane")

\* C9 witness: a detected input that has a Sydney keyword before a Brisbane
\* keyword in the text, and was resolved to Brisbane
C9_Witness ==
    /\ dres.done
    /\ dq = <<"n", "s", "w", "Q", "L", "D">>
    /\ dres.services = "Brisbane"

\* C10 as stated: every input that contains a keyword of a scope S is
\* detected as S, and an input without any keyword as National
C10_AnyKeywordDecides ==
    dres.done =>
        /\ \A i \in 1..Len(location_mapping) :
               MentionsAny(location_mapping[i].keywords, dq)
                   => dres.services = location_mapping[i].scope
        /\ \A i \in 1..Len(V3Table) :
               MentionsAny(V3Table[i].keywords, dq)
                   => dres.v3 = V3Table[i].scope
        /\ (MatchingEntries(location_mapping, dq) = {} => dres.services = "National")
        /\ (MatchingEntries(V3Table, dq) = {} => dres.v3 = "national")

\* C10 amended: every input that contains a keyword of a scope S and no
\* keyword of a scope listed before S in the table is detected as S (letter
\* case ignored); an input without any keyword is detected as National
C10_KeywordOfEarliestScopeDecides ==
    dres.done =>
        /\ \A i \in 1..Len(location_mapping) :
               (   /\ MentionsAny(location_mapping[i].keywords, dq)
                   /\ \A j \in 1..(i - 1) :
                          ~MentionsAny(location_mapping[j].keywords, dq))
                   => dres.services = location_mapping[i].scope
        /\ \A i \in 1..Len(V3Table) :
               (   /\ MentionsAny(V3Table[i].keywords, dq)
                   /\ \A j \in 1..(i - 1) : ~MentionsAny(V3Table[j].keywords, dq))
                   => dres.v3 = V3Table[i].scope
        /\ (MatchingEntries(location_mapping, dq) = {} => dres.services = "National")
        /\ (MatchingEntries(V3Table, dq) = {} => dres.v3 = "national")

\* C10 witness: an upper-case Brisbane keyword alone, detected as Brisbane
\* by both detectors
C10_Witness ==
    /\ dres.done
    /\ dq = <<"x", "Q", "L", "D">>
    /\ dres.services = "Brisbane"
    /\ dres.v3 = "brisbane"

\* C26: for every question the location the analyze endpoint records
\* (detect_location_from_question) equals the scope
\* PropertyAnalysisService._detect_location computes for it.
C26_EndpointLocationAgrees ==
    dres.done => dres.app = dres.services

(***************************************************************************)
(* Properties of the five-step pipeline (checked under Spec)               *)
(***************************************************************************)
Returned == pc = "s_returned"

CallsOfKind(kind) == { i \in DOMAIN calls : calls[i].kind = kind }

CallsOfStep(step) == { i \in DOMAIN calls : calls[i].step = step }

\* an exception reached the except clause of the method: a collaborator
\* raised outside the RSS try block, an LLM call returned an error record
\* (lines 61 and 98 raise), or a successful search hit the NameError
ExceptionInPipeline ==
    \E i \in DOMAIN calls :
        \/ calls[i].kind = "llm" /\ calls[i].outcome \in {"raise", "fail"}
        \/ calls[i].kind = "search" /\ calls[i].outcome \in {"raise", "ok"}

BothLLMsUnavailable == ~cfg.claude /\ ~cfg.gemini

C2_ProviderIndependence ==
    (Returned /\ BothLLMsUnavailable) =>
        /\ ~escaped
        /\ result.success = TRUE
        /\ result.final_answer.kind = "fallback"

\* the decision texts that hold no JSON object, an undecodable one, or one
\* without an action
MalformedDecisionTexts == {
    <<"w", "w">>,
    <<"{", "junk", "}">>,
    <<"{", "reason:r", "}">>,
    <<"}", "action:web_search", "query:q", "{">> }

DecisionSucceeded ==
    \E i \in CallsOfStep("decision") : calls[i].outcome = "ok"

C5_ContextFailuresInvisible ==
    (   /\ Returned
        /\ \A i \in CallsOfKind("llm") : calls[i].outcome = "ok"
        /\ \A i \in CallsOfKind("search") : calls[i].outcome \in {"fail", "raise"})
    =>  result.success = TRUE

\* C6: a failed decision call does not abort the pipeline. When the
\* decision call returned an error record, the final synthesis call is
\* still attempted, and its success gives success = true.
C6_FailedDecisionContinues ==
    (Returned /\ \E i \in CallsOfStep("decision") : calls[i].outcome = "fail")
    =>  /\ CallsOfStep("final") # {}
        /\ \A i \in CallsOfStep("final") :
               calls[i].outcome = "ok" => result.success = TRUE

RECURSIVE SumLLMTokens(_)
SumLLMTokens(cs) ==
    IF cs = <<>> THEN 0
    ELSE (IF Head(cs).kind = "llm" THEN Head(cs).tokens ELSE 0)
         + SumLLMTokens(Tail(cs))

\* C7: token aggregation. The token_usage of every result equals the sum
\* of the tokens_used of the LLM calls made in the request.
C7_TokenAggregation ==
    Returned =>
        /\ "token_usage" \in DOMAIN result
        /\ result.token_usage = SumLLMTokens(calls)

\* C8 as stated: with every LLM provider unavailable a request makes no
\* outbound call of any kind
C8_NoOutboundCallAtAll ==
    BothLLMsUnavailable => \A i \in DOMAIN calls : ~calls[i].network

\* C8 amended: with every LLM provider unavailable a request makes no LLM
\* network call and no web search; the RSS fetch of step 2, which comes
\* before the first LLM call, is still made when the RSS provider is
\* available.
C8_OnlyRssOutbound ==
    BothLLMsUnavailable =>
        /\ \A i \in DOMAIN calls : calls[i].network => calls[i].kind = "rss"
        /\ (Returned /\ cfg.rss = "available" => CallsOfKind("rss") # {})

\* C8 witness: all LLM providers down, the RSS fetch made, the call returned
C8_Witness ==
    /\ Returned
    /\ BothLLMsUnavailable
    /\ CallsOfKind("rss") # {}
    /\ CallsOfKind("llm") # {}
    /\ cfg.web = "available"

(***************************************************************************)
(* Properties of the analyze endpoint (checked under SpecEndpoint)         *)
(***************************************************************************)
\* a request that passed the checks of the endpoint is in progress or was
\* answered
RequestAccepted ==
    pc # "idle" \/ (response # NoValue /\ response.status = 200)

\* C3: budget gate precedence. For a user whose summed tokens_used has
\* reached the ceiling, an accepted request makes no call to an LLM, the
\* RSS or the search provider, and is answered with the budget-exceeded
\* result.
C3_BudgetGatePrecedence ==
    (RequestAccepted /\ SumTokensOf(db, user_id) >= TokenCeiling)
    =>  /\ calls = <<>>
        /\ (pc = "idle" => Get(response, "error", "none") = "budget_exceeded")

(***************************************************************************)
(* Properties of LLMService (checked under SpecLLM)                        *)
(***************************************************************************)
\* a method of the constructed service has been called
LLMMethodCalled == pc = "l_ready" /\ locals # NoValue

\* the provider the called method belongs to has no client
CalledProviderHasNoClient ==
    \/ locals.provider = "claude" /\ cfg.claude_client = None
    \/ locals.provider = "gemini" /\ cfg.gemini_model = None

\* C11: an unavailable LLM binding short-circuits. When a provider has no
\* API key, its client is never created, and every analyze call on that
\* provider returns success=false with a 'not available' error and sends
\* no request to the network.
C11_UnavailableShortCircuits ==
    /\ (pc \in {"l_init_gemini", "l_ready"} /\ ~cfg.Config.CLAUDE_API_KEY)
           => cfg.claude_client = None
    /\ (pc = "l_ready" /\ ~cfg.Config.GEMINI_API_KEY)
           => cfg.gemini_model = None
    /\ (LLMMethodCalled /\ CalledProviderHasNoClient)
           => /\ ~escaped
              /\ result.success = FALSE
              /\ result.error \in {"Claude client not available",
                                   "Gemini model not available"}
              /\ calls = <<>>

C11_Witness ==
    /\ LLMMethodCalled
    /\ locals.method = "analyze_with_claude"
    /\ cfg.Config.CLAUDE_ENABLED
    /\ ~cfg.Config.CLAUDE_API_KEY
    /\ cfg.gemini_model # None
    /\ result.success = FALSE

\* the request of the called method was answered with an error of the
\* provider client
ClientRaised ==
    /\ LLMMethodCalled
    /\ Len(calls) = 1
    /\ calls[1].outcome \in ClientOutcomes \ {"ok"}

\* C12: LLM call failures are values, not exceptions. No analyze method of
\* LLMService lets an exception through to its caller; a network, timeout
\* or HTTP error raised by the provider client is returned as a result
\* with success=false and an error message.
C12_FailuresAreValues ==
    /\ LLMMethodCalled => ~escaped /\ result # NoValue
    /\ ClientRaised
           => /\ result.success = FALSE
              /\ result.error \in {"Claude analysis failed",
                                   "Gemini analysis failed"}

C12_Witness ==
    /\ ClientRaised
    /\ locals.method = "analyze_with_gemini"
    /\ calls[1].outcome = "timeout"
    /\ result.success = FALSE

\* the step in which the endpoint answers a request whose pipeline has run
AnswersAnalysis == pc = "e_respond" /\ pc' = "idle"

\* C13: one record per analysis. Every analyze request that runs the
\* pipeline leaves exactly one new row in the queries table when it is
\* answered, whether the analysis ended with success=true or success=false
\* (given that a database is configured and its commit goes through: an
\* answer without a query id after a successful analysis is a failed commit).
C13_OneRecordPerAnalysis ==
    [][(AnswersAnalysis /\ cfg.database)
          => \/ Len(db') = Len(db) + 1
             \/ result.success /\ response'.query_id = None]_vars

(***************************************************************************)
(* Properties of the query store (checked under SpecStore)                 *)
(***************************************************************************)
\* the rows of a table, as a set
RowsIn(table) == { table[i] : i \in 1..Len(table) }

\* the step is a delete_query call with this id
DeletesById(id) ==
    /\ locals'.op = "delete_query"
    /\ locals'.query_id = Data(id)

\* C14: stored records are immutable. In every step of the store, each
\* row of the table is still there with all its fields unchanged, unless
\* the step is a delete-by-id of that row's own id.
C14_RecordsImmutable ==
    [][\A r \in RowsIn(db) : r \in RowsIn(db') \/ DeletesById(r.id)]_vars

\* the endpoint has answered an analysis that ended with success=true
AnsweredSuccess ==
    /\ pc = "idle"
    /\ response # NoValue
    /\ response.status = 200
    /\ response.success

\* llm_provider names the provider whose call produced answer
Attributed(answer, llm_provider) ==
    /\ llm_provider \in {"claude", "gemini"}
    /\ answer.kind = "llm" => answer.provider = llm_provider

\* C15: provider attribution. For every successful analysis, the
\* llm_provider reported in the response and written to the stored record
\* is "claude" or "gemini" and names the provider whose call produced the
\* final answer.
C15_ProviderAttribution ==
    /\ AnsweredSuccess => Attributed(response.answer, response.llm_provider)
    /\ \A i \in 1..Len(db) :
           db[i].success => Attributed(db[i].answer, db[i].llm_provider)

(***************************************************************************)
(* Properties of RSSService (checked under SpecRss)                        *)
(***************************************************************************)
\* get_recent_news has returned
RssReturned == pc = "r_idle" /\ result # NoValue

\* the feeds whose fetch ended with one of these outcomes
FeedsWith(kinds) ==
    { calls[i].name : i \in { j \in 1..Len(calls) : calls[j].outcome \in kinds } }

\* the feeds the returned articles come from
SourcesReturned == { result.value[i].source : i \in 1..Len(result.value) }

\* C16 as stated: RSS retrieval never raises, and a feed with an HTTP
\* error, a non-200 response or a parse error contributes no articles to
\* the list returned (which is empty when every feed fails).
C16_FailingFeedsContributeNothing ==
    /\ ~escaped
    /\ RssReturned =>
           SourcesReturned \cap FeedsWith({"non_200", "request_exception",
                                           "exception", "bozo"}) = {}

\* C16 amended: RSS retrieval never raises, and a feed whose request
\* raises, whose response is not 200 or whose processing raises
\* contributes no articles (the list is empty when every feed fails that
\* way); a feed that is only flagged as malformed contributes the entries
\* that were read.
C16_RaisingFeedsContributeNothing ==
    /\ ~escaped
    /\ RssReturned =>
           /\ SourcesReturned \cap FeedsWith({"non_200", "request_exception",
                                              "exception"}) = {}
           /\ FeedsWith({"ok", "bozo"}) = {} => result.value = <<>>

C16_Witness ==
    /\ RssReturned
    /\ Len(calls) = Len(feeds)
    /\ FeedsWith({"request_exception"}) # {}
    /\ FeedsWith({"non_200"}) # {}
    /\ FeedsWith({"exception"}) # {}
    /\ Len(result.value) = 1

(***************************************************************************)
(* Further properties of the five-step pipeline (checked under Spec)       *)
(***************************************************************************)
\* the position of an external call in the order of the steps
StepRank(c) ==
    IF c.kind = "rss" THEN 1
    ELSE IF c.kind = "llm" /\ c.step = "decision" THEN 2
    ELSE IF c.kind = "search" THEN 3
    ELSE 4

\* C17: strict step order within a request. The external calls of one
\* analyze request are made one after the other in the order RSS fetch,
\* decision LLM call, web search, final LLM call, and none of them is made
\* more than once.
C17_StrictStepOrder ==
    \A i \in 1..Len(calls) : \A j \in 1..Len(calls) :
        i < j => StepRank(calls[i]) < StepRank(calls[j])

C17_Witness ==
    /\ Returned
    /\ Len(calls) = 4
    /\ calls[1].kind = "rss"
    /\ calls[2].step = "decision"
    /\ calls[3].kind = "search"
    /\ calls[4].step = "final"
    /\ result.success

\* the decision texts whose JSON object asks for a web search
WebSearchDecisionTexts ==
    { t \in DecisionTexts :
        /\ ExtractJson(t) # None
        /\ "action:web_search" \in ExtractJson(t).members
        /\ "query:q" \in ExtractJson(t).members }

C19_DecisionProviderPreference ==
    \A i \in CallsOfStep("decision") :
        /\ cfg.claude => calls[i].provider = "claude"
        /\ (~cfg.claude /\ cfg.gemini) => calls[i].provider = "gemini"

\* C20: final-step provider preference. The final synthesis call is sent
\* to Gemini whenever Gemini is available, and to Claude only when Gemini
\* is unavailable and Claude is available.
C20_FinalProviderPreference ==
    \A i \in CallsOfStep("final") :
        /\ cfg.gemini => calls[i].provider = "gemini"
        /\ calls[i].provider = "claude" => (~cfg.gemini /\ cfg.claude)

C20_Witness ==
    /\ Returned
    /\ cfg.claude
    /\ cfg.gemini
    /\ \E i \in CallsOfStep("final") :
           calls[i].provider = "gemini" /\ calls[i].outcome = "ok"
    /\ result.llm_provider = "gemini"

\* initialisation has completed and no method has been called yet: calls
\* holds the test calls of the initialisation
LLMInitialised == pc = "l_ready" /\ locals = NoValue

\* the test calls made to a provider, in the order they were made
ProbesOf(provider) ==
    SelectSeq(calls, LAMBDA c : c.kind = "probe" /\ c.provider = provider)

\* client and working_model are what the test calls in probes determine:
\* the working model is the candidate of the first test call that
\* succeeded, the candidates were tried in list order, and there is a
\* client exactly when a test call succeeded
ProbingPicksFirst(models, probes, client, working_model) ==
    LET ok == { i \in 1..Len(probes) : probes[i].outcome = "ok" }
    IN  /\ \A i \in 1..Len(probes) : probes[i].model = Str(models[i])
        /\ client # None <=> ok # {}
        /\ ok = {} => working_model = None
        /\ ok # {} =>
               working_model = probes[CHOOSE i \in ok : \A k \in ok : i <= k].model

\* C21: capability probing picks the first working model. After
\* LLMService initialisation, for each provider the working model is the
\* first identifier of the candidate list whose test call succeeded, and
\* the provider's client is non-null exactly when a candidate succeeded.
C21_ProbingPicksFirstWorking ==
    LLMInitialised =>
        /\ ProbingPicksFirst(CLAUDE_MODELS, ProbesOf("claude"),
                             cfg.claude_client, cfg.working_claude_model)
        /\ ProbingPicksFirst(GEMINI_MODELS, ProbesOf("gemini"),
                             cfg.gemini_model, cfg.working_gemini_model)

C21_Witness ==
    /\ LLMInitialised
    /\ Len(ProbesOf("claude")) = 2
    /\ cfg.working_claude_model = Str(CLAUDE_MODELS[2])
    /\ Len(ProbesOf("gemini")) = Len(GEMINI_MODELS)
    /\ cfg.gemini_model = None

\* C22: availability is fixed after initialisation. Once initialisation
\* has completed, no analyze call, successful or not, changes a provider's
\* client or working model, and no analyze call sends a test call again.
C22_AvailabilityFixed ==
    [][pc = "l_ready" =>
          /\ cfg' = cfg
          /\ \A i \in 1..Len(calls') : calls'[i].kind # "probe"]_vars

C22_Witness ==
    /\ ClientRaised
    /\ locals.method = "analyze_with_claude_location"
    /\ cfg.claude_client # None
    /\ cfg.working_claude_model = Str(CLAUDE_MODELS[3])
    /\ cfg.gemini_model = None
    /\ cfg.Config.GEMINI_API_KEY

(***************************************************************************)
(* Properties of WebSearchService (checked under SpecSearch)               *)
(***************************************************************************)
\* search has returned a successful answer
SearchSucceeded ==
    /\ result # NoValue
    /\ result.success

\* C23: web-search results are bounded. Every snippet that
\* WebSearchService.search returns is at most snippet_max_length
\* characters long, and at most the configured top-N results are passed
\* into the final prompt.
C23_SearchResultsBounded ==
    /\ SearchSucceeded =>
           \A i \in 1..Len(result.results) :
               result.results[i].snippet # None
                   => Len(result.results[i].snippet.value) <= cfg.snippet_max_length
    /\ (locals # NoValue /\ "search_results_context" \in DOMAIN locals)
           => Len(locals.search_results_context) <= GOOGLE_CSE_TOP_N_RESULTS

(***************************************************************************)
(* Properties of the feed cache (checked under SpecCache)                  *)
(***************************************************************************)
FetchReturned(t) ==
    /\ pc[t] = "idle"
    /\ locals[t].op = "fetch_feed"
    /\ locals[t].feed_key \in rss_feeds
    /\ ~escaped[t]

RequestsOf(t) == {c \in calls : c.thread = t /\ c.call = locals[t].call}

\* the age the cached entry had when the call tested it, in clock units
AgeAtCheck(t) == locals[t].checked_at.value - locals[t].cached.value[2]

ServedFromCache(t) ==
    /\ FetchReturned(t)
    /\ RequestsOf(t) = {}

CompleteEntry(entry) ==
    /\ Len(entry) = 2
    /\ entry[1].success
    /\ entry[1].feed_key \in rss_feeds
    /\ entry[2] \in 0..next_id
    /\ entry[1].fetched_at <= entry[2]

\* C25: under every interleaving of fetch_feed and clear_cache calls on the
\* same feed key no call fails, and every cache entry a reader observes is
\* a complete (feed_data, timestamp) pair written by one successful fetch.
C25_CacheSafeUnderConcurrency ==
    /\ \A t \in Threads : ~escaped[t]
    /\ \A t \in Threads :
           locals[t].cached # None => CompleteEntry(locals[t].cached.value)
    /\ \A k \in DOMAIN db : CompleteEntry(db[k])

\* thread t returns from the fetch_feed call whose request or parse ended
\* in one of the given ways
FetchEnds(t, kinds) ==
    /\ pc[t] \in {"f_request", "f_store"}
    /\ pc'[t] = "idle"
    /\ locals'[t].outcome \in {Data(k) : k \in kinds}

IsFallbackRecord(value) ==
    /\ value # None
    /\ value # NoValue
    /\ ~value.value.success
    /\ value.value.entries_count = 0

FailedFetchLeavesCache(kinds) ==
    \A t \in Threads :
        FetchEnds(t, kinds) => IsFallbackRecord(result'[t]) /\ db' = db

CacheHoldsSuccessesOnly == \A k \in DOMAIN db : db[k][1].success

\* C28 as stated: a fetch whose request fails, whose parse raises or whose
\* document is malformed returns a fallback record with success=false and
\* no entries and leaves feed_cache unchanged, and the cache only holds
\* records with success=true.
C28_FailedFetchesNeverCached ==
    /\ [][FailedFetchLeavesCache({"request_error", "parse_error", "bozo"})]_vars
    /\ []CacheHoldsSuccessesOnly

\* C28 amended: a fetch in which the request or the processing of the
\* response raises an exception returns a fallback record with
\* success=false and no entries and leaves feed_cache unchanged, and the
\* cache only holds records with success=true.
C28_RaisingFetchesNeverCached ==
    /\ [][FailedFetchLeavesCache({"request_error", "parse_error"})]_vars
    /\ []CacheHoldsSuccessesOnly

C28_Witness ==
    \E t \in Threads :
        /\ pc[t] = "idle"
        /\ locals[t].outcome \in {Data("request_error"), Data("parse_error")}
        /\ IsFallbackRecord(result[t])
        /\ DOMAIN db # {}

(***************************************************************************)
(* Properties of process_query's progress updates (checked under           *)
(* SpecProgress)                                                           *)
(***************************************************************************)
ProgressOrder ==
    <<{"started"}, {"claude_analysis"}, {"claude_complete"}, {"scraping"},
      {"scraping_complete", "scraping_warning"}, {"gemini_processing"},
      {"gemini_complete"}, {"formatting"}>>

TerminalStatuses == {"complete", "error"}

IsProgressPrefix(statuses) ==
    /\ Len(statuses) <= Len(ProgressOrder)
    /\ \A i \in 1..Len(statuses) : statuses[i] \in ProgressOrder[i]

\* C27: the statuses process_query yields form a prefix of the stage order
\* followed, once the run has ended, by exactly one terminal status, complete
\* only after the whole prefix or error, and nothing is yielded after it.
C27_ProgressOrderedAndTerminated ==
    LET n == Len(calls)
    IN  IF n > 0 /\ calls[n] \in TerminalStatuses
        THEN /\ pc = "p_done"
             /\ IsProgressPrefix(SubSeq(calls, 1, n - 1))
             /\ calls[n] = "complete" => n - 1 = Len(ProgressOrder)
        ELSE /\ pc # "p_done"
             /\ IsProgressPrefix(calls)

(***************************************************************************)
(* Properties of the endpoint's save step (checked under SpecEndpoint)     *)
(***************************************************************************)
\* the endpoint answers a successful analysis whose store_query call raised:
\* the only way to a null query_id with a database and a successful result
SaveFailed ==
    /\ pc = "e_respond"
    /\ pc' = "idle"
    /\ cfg.database
    /\ result.success
    /\ response'.query_id = None

\* C29: when store_query raises while the endpoint saves a successful
\* result, the endpoint still answers 200 with success=true, the analysis
\* answer and a null query_id, and the store is left as it was.
C29_PersistenceFailureIsHarmless ==
    [][SaveFailed =>
          /\ response'.status = 200
          /\ response'.success
          /\ response'.answer = result.final_answer
          /\ db' = db]_vars

(***************************************************************************)
(* Properties of delete_query (checked under SpecStore)                    *)
(***************************************************************************)
\* the table without the rows that have this id, the others in their order
WithoutId(table, id) == SelectSeq(table, LAMBDA r : r.id # id)

\* the call before this step was a delete_query of the same id that
\* returned True
DeletedJustBefore(id) ==
    /\ locals # NoValue
    /\ locals.op = "delete_query"
    /\ locals.query_id = Data(id)
    /\ result = Data(TRUE)

\* C30: a delete_query(id) call that returns removes the row with that id
\* and returns True when there is one, every other row staying as it was,
\* and returns False and leaves the table as it was when there is none; a
\* second delete_query of the same id right after a True returns False.
C30_DeleteAffectsOneRecord ==
    [][\A id \in 1..(MaxStored + 1) :
          (DeletesById(id) /\ ~escaped') =>
              /\ HasId(db, id) =>
                    /\ result' = Data(TRUE)
                    /\ db' = WithoutId(db, id)
                    /\ RowsIn(db') = RowsIn(db) \ {r \in RowsIn(db) : r.id = id}
                    /\ Len(db') = Len(db) - 1
              /\ ~HasId(db, id) => result' = Data(FALSE) /\ db' = db
              /\ DeletedJustBefore(id) => result' = Data(FALSE) /\ db' = db]_vars

\* C30 witness: a delete_query call returned True and left another row in
\* the table
C30_Witness ==
    /\ locals # NoValue
    /\ locals.op = "delete_query"
    /\ result = Data(TRUE)
    /\ ~HasId(db, locals.query_id.value)
    /\ Len(db) >= 1

====
